---- MODULE Spec2Model ----
(***************************************************************************)
(* A model of the vet_agent dialogue state machine: the session loop of    *)
(* vet_agent.py, the orchestrator graph (orchestrator node, inquiry        *)
(* subgraph, diagnosis subgraph), the profile extractor with its merge,    *)
(* and the inquiry controller's termination policy.                        *)
(*                                                                         *)
(* Python strings are sequences of one-character strings, so that          *)
(* str.strip() and str.lower() are computed, not assumed.  Python's None   *)
(* is the sentinel sequence None.                                          *)
(***************************************************************************)
EXTENDS Naturals, Integers, Sequences, FiniteSets, TLC

----------------------------------------------------------------------------
(* Bounds of the model.                                                    *)

\* number of user messages one session may receive
MaxUserTurns == 4

\* largest inquiry_turns value a DiagnosisState handed to inquiry_node holds
MaxNodeTurns == 4

\* largest additional_inquiry_turns value handed to inquiry_node
MaxNodeAdditional == 2

\* number of points one recall (dense or sparse) returns at most; the
\* program asks for recall_limit = 40
MaxHits == 3

\* the limit a search call is given; the retriever node passes 10
SearchLimit == 2

\* number of results one search hands the retriever node at most; the
\* node asks for limit = 10
MaxPerQuery == 4

----------------------------------------------------------------------------
(* Strings.                                                                *)

None == <<"<None>">>

s_empty == <<>>
s_blank == <<" ">>
s_rex == <<"r">>
s_beagle == <<"b">>
s_two == <<"2">>
s_male == <<"m">>
s_kg == <<"k">>
s_english == <<"e">>
s_vomit == <<"v">>
s_vomit_padded == <<" ", "v">>
s_vomit_upper == <<"V">>
s_dog == <<"d", "o", "g">>
s_cat == <<"c", "a", "t">>
s_bird == <<"b", "i", "r", "d">>
s_ferret == <<"f", "e", "r", "r", "e", "t">>
s_guinea_pig == <<"g", "u", "i", "n", "e", "a", "_", "p", "i", "g">>
s_hamster == <<"h", "a", "m", "s", "t", "e", "r">>
s_rabbit == <<"r", "a", "b", "b", "i", "t">>
s_max == <<"x">>
s_unknown == <<"u", "n", "k", "n", "o", "w", "n">>
s_Unknown == <<"U", "n", "k", "n", "o", "w", "n">>
s_none == <<"n", "o", "n", "e">>
s_null == <<"n", "u", "l", "l">>
s_na == <<"n", "/", "a">>
s_na_padded == <<" ", "n", "/", "a", " ">>
s_not_provided == <<"n", "o", "t", " ", "p", "r", "o", "v", "i", "d", "e", "d">>

\* str.lower() on one character, over the letters the model uses
LowerChar(c) ==
    CASE c = "V" -> "v"
      [] c = "U" -> "u"
      [] c = "N" -> "n"
      [] c = "D" -> "d"
      [] OTHER -> c

\* str.lower()
Lower(s) == [i \in 1..Len(s) |-> LowerChar(s[i])]

IsSpace(c) == c = " "

RECURSIVE LStrip(_)
LStrip(s) ==
    IF s = <<>> THEN <<>>
    ELSE IF IsSpace(Head(s)) THEN LStrip(Tail(s)) ELSE s

RECURSIVE RStrip(_)
RStrip(s) ==
    IF s = <<>> THEN <<>>
    ELSE IF IsSpace(s[Len(s)]) THEN RStrip(SubSeq(s, 1, Len(s) - 1)) ELSE s

\* str.strip()
Strip(s) == RStrip(LStrip(s))

\* x in list
InSeq(x, seq) == \E i \in 1..Len(seq) : seq[i] = x

\* Python truthiness of an Optional[str] or a list: None, "" and [] are falsy
Falsy(v) == v = None \/ v = <<>>

----------------------------------------------------------------------------
(* PetProfile: the record, its validators, and merge_profiles.             *)

SpeciesEnum ==
    {s_bird, s_cat, s_dog, s_ferret, s_guinea_pig, s_hamster, s_rabbit, s_unknown}

SpeciesEnum_UNKNOWN == s_unknown

ScalarFields == {"name", "species", "breed", "age", "sex", "weight", "language"}

\* PetProfile(): every scalar None, symptoms []
EmptyProfile ==
    [name |-> None, species |-> None, breed |-> None, symptoms |-> <<>>,
     age |-> None, sex |-> None, weight |-> None, language |-> None]

\* the strings empty_string_to_none turns into None
AbsentWords == {s_empty, s_none, s_null, s_na, s_unknown, s_not_provided}

\* the validator comparing v itself, without strip() and lower()
empty_string_to_none_exact(v) ==
    IF v = None THEN None
    ELSE IF v \in AbsentWords THEN None
    ELSE v

\* field validator of the scalar fields (mode='before')
empty_string_to_none(v) ==
    IF v = None THEN None
    ELSE IF Lower(Strip(v)) \in AbsentWords THEN None
    ELSE v

RECURSIVE sanitize_list(_)
sanitize_list(v) ==
    IF v = <<>> THEN <<>>
    ELSE LET s == Strip(Head(v))
         IN  IF s # <<>> /\ Lower(s) \notin {s_none, s_na}
             THEN <<s>> \o sanitize_list(Tail(v))
             ELSE sanitize_list(Tail(v))

\* field validator of symptoms (mode='before'), on None or a list of strings
sanitize_symptoms(v) == IF v = None THEN <<>> ELSE sanitize_list(v)

\* pydantic accepts the raw species only when, after the before-validator,
\* it is None or the value of a SpeciesEnum member
ValidRaw(raw) ==
    LET sp == empty_string_to_none(raw.species)
    IN  sp = None \/ sp \in SpeciesEnum

\* PetProfile(**raw): the validated record
PetProfileCtor(raw) ==
    [name |-> empty_string_to_none(raw.name),
     species |-> empty_string_to_none(raw.species),
     breed |-> empty_string_to_none(raw.breed),
     symptoms |-> sanitize_symptoms(raw.symptoms),
     age |-> empty_string_to_none(raw.age),
     sex |-> empty_string_to_none(raw.sex),
     weight |-> empty_string_to_none(raw.weight),
     language |-> empty_string_to_none(raw.language)]

RECURSIVE AppendSymptoms_NoDedup(_, _)
\* the symptoms loop without its "not in" test
AppendSymptoms_NoDedup(cur, items) ==
    IF items = <<>> THEN cur
    ELSE LET clean_item == Strip(Head(items))
         IN  AppendSymptoms_NoDedup(
                 IF clean_item # <<>> THEN Append(cur, clean_item) ELSE cur,
                 Tail(items))

RECURSIVE AppendSymptoms_Prepend(_, _)
\* the symptoms loop inserting a new item at the front of the list
AppendSymptoms_Prepend(cur, items) ==
    IF items = <<>> THEN cur
    ELSE LET clean_item == Strip(Head(items))
         IN  AppendSymptoms_Prepend(
                 IF clean_item # <<>> /\ ~InSeq(clean_item, cur)
                 THEN <<clean_item>> \o cur ELSE cur,
                 Tail(items))

\* symptoms handled like the other keys: the delta's list overwrites
AppendSymptoms_Overwrite(cur, items) == IF items = <<>> THEN cur ELSE items

RECURSIVE AppendSymptoms(_, _)
\* the symptoms loop of merge_profiles: strip, append when new
AppendSymptoms(cur, items) ==
    IF items = <<>> THEN cur
    ELSE LET clean_item == Strip(Head(items))
         IN  AppendSymptoms(
                 IF clean_item # <<>> /\ ~InSeq(clean_item, cur)
                 THEN Append(cur, clean_item) ELSE cur,
                 Tail(items))

\* a delta field that only fills a field the profile does not hold yet
Overwrite_KeepsCurrent(cur, new) == IF cur = None THEN new ELSE cur

\* the overwrite with the delta dumped without exclude_none
Overwrite_WithNone(cur, new) == new

\* a delta field overwrites unless it is None (model_dump(exclude_none=True))
Overwrite(cur, new) == IF new = None THEN cur ELSE new

merge_profiles(current, new_delta) ==
    PetProfileCtor(
        [name |-> Overwrite(current.name, new_delta.name),
         species |-> Overwrite(current.species, new_delta.species),
         breed |-> Overwrite(current.breed, new_delta.breed),
         symptoms |-> AppendSymptoms(current.symptoms, new_delta.symptoms),
         age |-> Overwrite(current.age, new_delta.age),
         sex |-> Overwrite(current.sex, new_delta.sex),
         weight |-> Overwrite(current.weight, new_delta.weight),
         language |-> Overwrite(current.language, new_delta.language)])

\* the list object updated_data["symptoms"] names, were model_dump to hand
\* out current's own list
model_dump_shares_list == "current"

\* updated_data = current.model_dump() builds containers of its own, so
\* updated_data["symptoms"] names a list object of the dump
model_dump_list == "updated_data"

\* the list objects at the end of merge_profiles: the loop appends to the
\* list updated_data["symptoms"] names
MergeHeap(current, new_delta) ==
    LET heap == [c \in {"current", "new_delta", "updated_data"} |->
                    IF c = "new_delta" THEN new_delta.symptoms
                    ELSE current.symptoms]
    IN  [heap EXCEPT ![model_dump_list] =
                         AppendSymptoms(heap[model_dump_list],
                                        new_delta.symptoms)]

----------------------------------------------------------------------------
(* Graph state.  A state key is a channel: <<>> while nothing was written  *)
(* to it, <<v>> once it holds v; state.get(key, default) reads it.         *)

AgentStatus_INITIALIZED == "initialized"
AgentStatus_INQUIRY == "inquiry"
AgentStatus_DIAGNOSIS == "diagnosis"
AgentStatus_TREATMENT == "treatment"
AgentStatus_KNOWLEDGE == "knowledge"
AgentStatus_END == "end"

AgentStatus ==
    {AgentStatus_INITIALIZED, AgentStatus_INQUIRY, AgentStatus_DIAGNOSIS,
     AgentStatus_TREATMENT, AgentStatus_KNOWLEDGE, AgentStatus_END}

IntentType ==
    {"intent_diagnosis", "intent_treatment", "intent_knowledge",
     "intent_failure", "chit_chat", "out_of_scope"}

\* state.get(key, default)
StateGet(channel, default) == IF channel = <<>> THEN default ELSE channel[1]

HumanMessage(content) == [type |-> "human", content |-> content, id |-> 0]

AIMessage(content) == [type |-> "ai", content |-> content, id |-> 0]

\* index of the message of `left` with this id, 0 when there is none
IndexOfId(left, id) ==
    IF \E i \in 1..Len(left) : left[i].id = id
    THEN CHOOSE i \in 1..Len(left) : left[i].id = id
    ELSE 0

RECURSIVE add_messages(_, _)
\* the reducer of MessagesState.messages: a message without id gets a fresh
\* one and is appended; a message whose id is already there replaces it
add_messages(left, right) ==
    IF right = <<>> THEN left
    ELSE LET m == Head(right)
             at == IF m.id = 0 THEN 0 ELSE IndexOfId(left, m.id)
         IN  IF at # 0
             THEN add_messages([left EXCEPT ![at] = m], Tail(right))
             ELSE add_messages(
                      Append(left, [m EXCEPT !.id =
                                       IF m.id = 0 THEN Len(left) + 1 ELSE m.id]),
                      Tail(right))

\* DiagnosisState of a subgraph that is not running
NoSub ==
    [messages |-> <<>>, agent_status |-> <<>>, pet_profile |-> <<>>,
     inquiry_turns |-> <<>>, additional_inquiry_turns |-> <<>>,
     search_queries |-> <<>>, retrieved_docs |-> <<>>,
     query_rewrite_count |-> <<>>, diagnosis_draft |-> <<>>]

\* the outcome of a model call that raised (transport, parsing, validation)
ModelError == "ModelError"

ModelCall(site, outcome) == [site |-> site, outcome |-> outcome]

\* what the previous turn ended with, before any turn has ended
NoTurn ==
    [agent_status |-> <<>>, pet_profile |-> <<>>, inquiry_turns |-> <<>>,
     additional_inquiry_turns |-> <<>>, messages |-> <<>>]

VARIABLES
    pc,           \* where the session is: the loop's input(), a graph node, ...
    user_turns,   \* user messages received so far
    messages,     \* OrchestratorState.messages of the thread's checkpoint
    agent_status, \* OrchestratorState.agent_status (channel)
    user_intent,  \* OrchestratorState.user_intent (channel)
    pet_profile,  \* OrchestratorState.pet_profile (channel)
    sub,          \* DiagnosisState of the subgraph invocation that is running
    model_calls,  \* the model calls of the running turn: site and outcome
    turn_end,     \* the state the previous graph invocation ended with
    mg,           \* a chain of merge_profiles calls: profiles, delta, result
    sr,           \* one Retriever.search call: hit lists, fused list, results
    rn,           \* one diagnosis_retriever_node call: per-query results, output
    pr,           \* one Parser.parse call: batches, attempts, futures, output
    ss,           \* two sessions on one MemorySaver: storage and running turns
    ev            \* one Evaluator.evaluate call: futures, counters, metrics

vars ==
    <<pc, user_turns, messages, agent_status, user_intent, pet_profile, sub,
      model_calls, turn_end, mg, sr, rn, pr, ss, ev>>

\* the variables of the function-level specifications, idle in a session
calc == <<mg, sr, rn, pr, ss, ev>>

Idle == [stage |-> "idle"]

----------------------------------------------------------------------------
(* inquiry_node: the termination policy.                                   *)

\* the turn count from which inquiry_node stops asking
InquiryTurnLimit == 3

\* the mandatory list without symptoms
mandatory_fields_NoSymptoms == <<"species", "name", "breed">>

mandatory_fields == <<"species", "name", "breed", "symptoms">>

optional_fields == <<"age", "sex", "weight">>

\* the test of the mandatory loop: species also counts as missing when UNKNOWN
IsMissingMandatory(profile, field) ==
    IF field = "species"
    THEN Falsy(profile.species) \/ profile.species = SpeciesEnum_UNKNOWN
    ELSE Falsy(profile[field])

missing_mandatory(profile) ==
    SelectSeq(mandatory_fields, LAMBDA f : IsMissingMandatory(profile, f))

missing_optional(profile) ==
    SelectSeq(optional_fields, LAMBDA f : Falsy(profile[f]))

\* inquiry_node with the abort test written turns > 3
InquiryBranch_AbortLate(profile, turns, additional_turns) ==
    IF /\ missing_mandatory(profile) = <<>>
       /\ \/ missing_optional(profile) = <<>>
          \/ additional_turns > 0
          \/ turns >= InquiryTurnLimit
    THEN "ready"
    ELSE IF turns > InquiryTurnLimit THEN "abort"
    ELSE "ask"

\* inquiry_node with the additional_turns > 0 test left out
InquiryBranch_IgnoresAdditional(profile, turns, additional_turns) ==
    IF /\ missing_mandatory(profile) = <<>>
       /\ \/ missing_optional(profile) = <<>>
          \/ turns >= InquiryTurnLimit
    THEN "ready"
    ELSE IF turns >= InquiryTurnLimit THEN "abort"
    ELSE "ask"

\* the branch inquiry_node takes: "ready" returns DIAGNOSIS, "abort" returns
\* END, "ask" calls the question model
InquiryBranch(profile, turns, additional_turns) ==
    IF /\ missing_mandatory(profile) = <<>>
       /\ \/ missing_optional(profile) = <<>>
          \/ additional_turns > 0
          \/ turns >= InquiryTurnLimit
    THEN "ready"
    ELSE IF turns >= InquiryTurnLimit THEN "abort"
    ELSE "ask"

\* what the question is about: target_fields of the prompt
QuestionKind(profile) ==
    IF missing_mandatory(profile) # <<>>
    THEN "question_mandatory" ELSE "question_optional"

\* additional_inquiry_turns returned with a question
AdditionalAfterQuestion(profile, additional_turns) ==
    IF missing_mandatory(profile) # <<>>
    THEN additional_turns ELSE additional_turns + 1

\* inquiry_node working on a fresh PetProfile() instead of the stored one:
\* with every mandatory field missing it asks, and returns that profile
InquiryNode_FreshProfile ==
    /\ pc = "inquiry_node"
    /\ UNCHANGED calc
    /\ InquiryBranch(EmptyProfile, StateGet(sub.inquiry_turns, 0),
                     StateGet(sub.additional_inquiry_turns, 0)) = "ask"
    /\ model_calls' = Append(model_calls, ModelCall("inquiry_model", "ok"))
    /\ sub' = [sub EXCEPT
           !.messages = add_messages(sub.messages,
                            <<AIMessage(QuestionKind(EmptyProfile))>>),
           !.pet_profile = <<EmptyProfile>>,
           !.inquiry_turns = <<StateGet(sub.inquiry_turns, 0) + 1>>,
           !.additional_inquiry_turns =
               <<AdditionalAfterQuestion(
                     EmptyProfile, StateGet(sub.additional_inquiry_turns, 0))>>]
    /\ pc' = "inquiry_end"
    /\ UNCHANGED <<user_turns, messages, agent_status, user_intent,
                   pet_profile, turn_end>>

InquiryNode ==
    /\ pc = "inquiry_node"
    /\ UNCHANGED calc
    /\ LET updated_profile == StateGet(sub.pet_profile, EmptyProfile)
           turns == StateGet(sub.inquiry_turns, 0)
           additional_turns == StateGet(sub.additional_inquiry_turns, 0)
           branch == InquiryBranch(updated_profile, turns, additional_turns)
       IN  \/ /\ branch = "ready"
              /\ sub' = [sub EXCEPT
                     !.agent_status = <<AgentStatus_DIAGNOSIS>>,
                     !.pet_profile = <<updated_profile>>,
                     !.inquiry_turns = <<turns + 1>>,
                     !.messages = add_messages(sub.messages,
                                      <<AIMessage("profile_summary")>>)]
              /\ pc' = "inquiry_end"
              /\ UNCHANGED model_calls
           \/ /\ branch = "abort"
              /\ sub' = [sub EXCEPT
                     !.agent_status = <<AgentStatus_END>>,
                     !.pet_profile = <<updated_profile>>,
                     !.inquiry_turns = <<turns + 1>>,
                     !.messages = add_messages(sub.messages, <<>>)]
              /\ pc' = "inquiry_end"
              /\ UNCHANGED model_calls
           \/ /\ branch = "ask"
              /\ model_calls' = Append(model_calls,
                                    ModelCall("inquiry_model", "ok"))
              /\ sub' = [sub EXCEPT
                     !.messages = add_messages(sub.messages,
                                      <<AIMessage(QuestionKind(updated_profile))>>),
                     !.pet_profile = <<updated_profile>>,
                     !.inquiry_turns = <<turns + 1>>,
                     !.additional_inquiry_turns =
                         <<AdditionalAfterQuestion(updated_profile,
                                                   additional_turns)>>]
              /\ pc' = "inquiry_end"
           \/ /\ branch = "ask"
              /\ model_calls' = Append(model_calls,
                                    ModelCall("inquiry_model", ModelError))
              /\ pc' = "raised"
              /\ UNCHANGED sub
    /\ UNCHANGED <<user_turns, messages, agent_status, user_intent,
                   pet_profile, turn_end>>

----------------------------------------------------------------------------
(* The extraction model's raw outputs the session draws from.              *)

RawMandatory ==
    [name : {None, s_rex},
     species : {None, s_dog, s_Unknown, s_beagle},
     breed : {None, s_beagle},
     symptoms : {<<>>, <<s_vomit_padded>>, <<s_vomit_upper>>}]

RawOptional ==
    {[age |-> None, sex |-> None, weight |-> None, language |-> None],
     [age |-> s_two, sex |-> None, weight |-> None, language |-> s_english],
     [age |-> None, sex |-> s_male, weight |-> s_kg, language |-> None],
     [age |-> s_two, sex |-> s_male, weight |-> s_kg, language |-> s_blank]}

RawDeltas ==
    {[name |-> m.name, species |-> m.species, breed |-> m.breed,
      symptoms |-> m.symptoms, age |-> o.age, sex |-> o.sex,
      weight |-> o.weight, language |-> o.language] :
        m \in RawMandatory, o \in RawOptional}

----------------------------------------------------------------------------
(* The graph: entering and leaving a subgraph, ending an invocation.       *)

\* a compiled subgraph added as a node reads the parent's keys it shares;
\* the subgraphs are compiled without a checkpointer of their own, so each
\* invocation starts from the parent's keys and the keys only DiagnosisState
\* declares (inquiry_turns, additional_inquiry_turns, ...) start unwritten
SubgraphInput(msgs, status, profile) ==
    [NoSub EXCEPT !.messages = add_messages(<<>>, msgs),
                  !.agent_status = status,
                  !.pet_profile = profile]

orchestrator_router(status) ==
    IF status = AgentStatus_INQUIRY THEN "inquiry_subgraph" ELSE "END"

\* diagnosis_router sending the INQUIRY status on into the diagnosis subgraph
diagnosis_router_InquiryContinues(status) ==
    IF status \in {AgentStatus_INQUIRY, AgentStatus_DIAGNOSIS}
    THEN "diagnosis_subgraph" ELSE "END"

diagnosis_router(status) ==
    IF status = AgentStatus_INQUIRY THEN "inquiry_subgraph"
    ELSE IF status = AgentStatus_DIAGNOSIS THEN "diagnosis_subgraph"
    ELSE "END"

\* graph.astream returns: the checkpoint keeps OrchestratorState's keys only
EndInvocation(final_sub) ==
    /\ pc' = "await_input"
    /\ sub' = NoSub
    /\ model_calls' = <<>>
    /\ turn_end' = [agent_status |-> agent_status',
                    pet_profile |-> pet_profile',
                    inquiry_turns |-> final_sub.inquiry_turns,
                    additional_inquiry_turns |->
                        final_sub.additional_inquiry_turns,
                    messages |-> messages']

----------------------------------------------------------------------------
(* The session loop and the orchestrator node.                             *)

\* input() returned a message: graph.astream({"messages": [input_message]})
UserInput ==
    /\ pc = "await_input"
    /\ UNCHANGED calc
    /\ user_turns < MaxUserTurns
    /\ user_turns' = user_turns + 1
    /\ messages' = add_messages(messages, <<HumanMessage("utterance")>>)
    /\ pc' = "orchestrator_node"
    /\ UNCHANGED <<agent_status, user_intent, pet_profile, sub, model_calls,
                   turn_end>>

\* input() returned quit/exit or raised EOFError
UserQuit ==
    /\ pc = "await_input"
    /\ UNCHANGED calc
    /\ pc' = "exited"
    /\ UNCHANGED <<user_turns, messages, agent_status, user_intent,
                   pet_profile, sub, model_calls, turn_end>>

\* orchestrator_node without its test for the DIAGNOSIS status
OrchestratorSkips_NotDiagnosis(status) ==
    status \in {AgentStatus_INQUIRY, AgentStatus_TREATMENT,
                AgentStatus_KNOWLEDGE}

\* the statuses for which orchestrator_node returns {} without classifying
OrchestratorSkips(status) ==
    status \in {AgentStatus_INQUIRY, AgentStatus_DIAGNOSIS,
                AgentStatus_TREATMENT, AgentStatus_KNOWLEDGE}

\* the update orchestrator_node returns for a classified intent
OrchestratorUpdate(intent) ==
    IF intent = "intent_diagnosis"
    THEN [agent_status |-> AgentStatus_INQUIRY,
          user_intent |-> "intent_diagnosis", messages |-> <<>>]
    ELSE IF intent = "intent_treatment"
    THEN [agent_status |-> AgentStatus_TREATMENT,
          user_intent |-> "intent_treatment",
          messages |-> <<AIMessage("treatment_placeholder")>>]
    ELSE IF intent = "intent_knowledge"
    THEN [agent_status |-> AgentStatus_KNOWLEDGE,
          user_intent |-> "intent_knowledge",
          messages |-> <<AIMessage("knowledge_placeholder")>>]
    ELSE [agent_status |-> AgentStatus_END,
          user_intent |-> "intent_failure", messages |-> <<>>]

\* the conditional edge after orchestrator_node
AfterOrchestrator(calls) ==
    IF orchestrator_router(StateGet(agent_status', "")) = "inquiry_subgraph"
    THEN /\ pc' = "extractor_node"
         /\ sub' = SubgraphInput(messages', agent_status', pet_profile')
         /\ model_calls' = calls
         /\ UNCHANGED turn_end
    ELSE EndInvocation(NoSub)

OrchestratorNode ==
    /\ pc = "orchestrator_node"
    /\ UNCHANGED calc
    /\ UNCHANGED <<user_turns, pet_profile>>
    /\ \/ /\ OrchestratorSkips(StateGet(agent_status, ""))
          /\ UNCHANGED <<messages, agent_status, user_intent>>
          /\ AfterOrchestrator(model_calls)
       \/ /\ ~OrchestratorSkips(StateGet(agent_status, ""))
          /\ \E intent \in IntentType :
                LET upd == OrchestratorUpdate(intent)
                IN  /\ agent_status' = <<upd.agent_status>>
                    /\ user_intent' = <<upd.user_intent>>
                    /\ messages' = add_messages(messages, upd.messages)
                    /\ AfterOrchestrator(
                           Append(model_calls,
                                  ModelCall("orchestrator_model", "ok")))
       \/ /\ ~OrchestratorSkips(StateGet(agent_status, ""))
          /\ model_calls' = Append(model_calls,
                                ModelCall("orchestrator_model", ModelError))
          /\ pc' = "raised"
          /\ UNCHANGED <<messages, agent_status, user_intent, sub, turn_end>>

\* the except clause of the session loop: logs the error and breaks
SessionExcept ==
    /\ pc = "raised"
    /\ UNCHANGED calc
    /\ pc' = "exited_on_error"
    /\ UNCHANGED <<user_turns, messages, agent_status, user_intent,
                   pet_profile, sub, model_calls, turn_end>>

----------------------------------------------------------------------------
(* The inquiry subgraph: extractor_node, then inquiry_node.                *)

\* a raw output pydantic rejects raises inside invoke, like a transport error
ExtractorNode ==
    /\ pc = "extractor_node"
    /\ UNCHANGED calc
    /\ LET current_profile == StateGet(sub.pet_profile, EmptyProfile)
       IN  \/ \E raw \in RawDeltas :
                 /\ ValidRaw(raw)
                 /\ sub' = [sub EXCEPT !.pet_profile =
                               <<merge_profiles(current_profile,
                                                PetProfileCtor(raw))>>]
                 /\ model_calls' = Append(model_calls,
                                       ModelCall("extractor_model", "ok"))
                 /\ pc' = "inquiry_node"
           \/ /\ sub' = [sub EXCEPT !.pet_profile = <<current_profile>>]
              /\ model_calls' = Append(model_calls,
                                    ModelCall("extractor_model", "none"))
              /\ pc' = "inquiry_node"
           \/ /\ model_calls' = Append(model_calls,
                                    ModelCall("extractor_model", ModelError))
              /\ pc' = "raised"
              /\ UNCHANGED sub
    /\ UNCHANGED <<user_turns, messages, agent_status, user_intent,
                   pet_profile, turn_end>>

\* the subgraph node's writes reach the parent, then diagnosis_router
InquirySubgraphEnd ==
    /\ pc = "inquiry_end"
    /\ UNCHANGED calc
    /\ messages' = add_messages(messages, sub.messages)
    /\ agent_status' = IF sub.agent_status = <<>> THEN agent_status
                       ELSE sub.agent_status
    /\ pet_profile' = IF sub.pet_profile = <<>> THEN pet_profile
                      ELSE sub.pet_profile
    /\ IF diagnosis_router(StateGet(agent_status', "")) = "diagnosis_subgraph"
       THEN /\ pc' = "diagnostic_query_generator_node"
            /\ sub' = SubgraphInput(messages', agent_status', pet_profile')
            /\ UNCHANGED <<model_calls, turn_end>>
       ELSE EndInvocation(sub)
    /\ UNCHANGED <<user_turns, user_intent>>

----------------------------------------------------------------------------
(* The diagnosis subgraph: planner, retriever, actor, critic.              *)

\* the evidence lists a retrieval that did not raise may format
RetrievedDocs == {<<>>, <<"doc_a">>}

\* str(None)
s_None == <<"N", "o", "n", "e">>

\* getattr(profile.species, "value", str(profile.species))
species_val(profile) ==
    IF profile.species = None THEN s_None ELSE profile.species

RECURSIVE JoinComma(_)
\* ', '.join(parts)
JoinComma(parts) ==
    IF parts = <<>> THEN <<>>
    ELSE IF Len(parts) = 1 THEN parts[1]
    ELSE parts[1] \o <<",", " ">> \o JoinComma(Tail(parts))

\* the two texts of a MultiViewSearchQueries the planner model returned
simulated_observation == <<"simulated_observation">>
medical_expansion == <<"medical_expansion">>

\* f"{species_val} {', '.join(profile.symptoms)}" with the species alone
fallback_query_SpeciesOnly(profile) == species_val(profile) \o <<" ">>

\* f"{species_val} {', '.join(profile.symptoms)}"
fallback_query(profile) ==
    species_val(profile) \o <<" ">> \o JoinComma(profile.symptoms)

QueryGeneratorNode ==
    /\ pc = "diagnostic_query_generator_node"
    /\ UNCHANGED calc
    /\ \/ /\ sub.pet_profile = <<>>
          /\ sub' = [sub EXCEPT !.search_queries = <<<<>>>>]
          /\ UNCHANGED model_calls
       \/ /\ sub.pet_profile # <<>>
          /\ sub' = [sub EXCEPT
                 !.search_queries =
                     <<<<simulated_observation, medical_expansion>>>>,
                 !.query_rewrite_count = <<0>>]
          /\ model_calls' = Append(model_calls,
                                ModelCall("query_generator", "ok"))
       \/ /\ sub.pet_profile # <<>>
          /\ sub' = [sub EXCEPT
                 !.search_queries =
                     <<<<fallback_query(sub.pet_profile[1])>>>>,
                 !.query_rewrite_count = <<0>>]
          /\ model_calls' = Append(model_calls,
                                ModelCall("query_generator", ModelError))
    /\ pc' = "diagnostic_retrieve_node"
    /\ UNCHANGED <<user_turns, messages, agent_status, user_intent,
                   pet_profile, turn_end>>

RetrieverNode ==
    /\ pc = "diagnostic_retrieve_node"
    /\ UNCHANGED calc
    /\ \/ /\ StateGet(sub.search_queries, <<>>) = <<>>
          /\ sub' = [sub EXCEPT !.retrieved_docs = <<<<>>>>]
       \/ /\ StateGet(sub.search_queries, <<>>) # <<>>
          /\ \E docs \in RetrievedDocs :
                sub' = [sub EXCEPT !.retrieved_docs = <<docs>>]
       \/ /\ StateGet(sub.search_queries, <<>>) # <<>>
          /\ sub' = [sub EXCEPT !.retrieved_docs = <<<<>>>>]
    /\ pc' = "diagnosis_actor_node"
    /\ UNCHANGED <<user_turns, messages, agent_status, user_intent,
                   pet_profile, model_calls, turn_end>>

\* the actor without its guard on retrieved_docs
ActorNode_NoEvidenceGuard ==
    /\ pc = "diagnosis_actor_node"
    /\ UNCHANGED calc
    /\ \/ /\ sub' = [sub EXCEPT !.diagnosis_draft = <<<<"draft">>>>]
          /\ model_calls' = Append(model_calls, ModelCall("actor", "ok"))
       \/ /\ sub' = [sub EXCEPT !.diagnosis_draft = <<None>>]
          /\ model_calls' = Append(model_calls,
                                ModelCall("actor", ModelError))
    /\ pc' = "diagnosis_critic_node"
    /\ UNCHANGED <<user_turns, messages, agent_status, user_intent,
                   pet_profile, turn_end>>

ActorNode ==
    /\ pc = "diagnosis_actor_node"
    /\ UNCHANGED calc
    /\ \/ /\ StateGet(sub.retrieved_docs, <<>>) = <<>>
          /\ sub' = [sub EXCEPT !.diagnosis_draft = <<None>>]
          /\ UNCHANGED model_calls
       \/ /\ StateGet(sub.retrieved_docs, <<>>) # <<>>
          /\ sub' = [sub EXCEPT !.diagnosis_draft = <<<<"draft">>>>]
          /\ model_calls' = Append(model_calls, ModelCall("actor", "ok"))
       \/ /\ StateGet(sub.retrieved_docs, <<>>) # <<>>
          /\ sub' = [sub EXCEPT !.diagnosis_draft = <<None>>]
          /\ model_calls' = Append(model_calls,
                                ModelCall("actor", ModelError))
    /\ pc' = "diagnosis_critic_node"
    /\ UNCHANGED <<user_turns, messages, agent_status, user_intent,
                   pet_profile, turn_end>>

\* the critic with its model call outside the try
CriticNode_Unguarded ==
    /\ pc = "diagnosis_critic_node"
    /\ UNCHANGED calc
    /\ \/ /\ Falsy(StateGet(sub.diagnosis_draft, None))
          /\ sub' = [sub EXCEPT !.messages =
                        add_messages(sub.messages,
                                     <<AIMessage("fallback_no_draft")>>)]
          /\ UNCHANGED model_calls
          /\ pc' = "diagnosis_end"
       \/ /\ ~Falsy(StateGet(sub.diagnosis_draft, None))
          /\ \E verdict \in {"final_approved", "final_rejected"} :
                sub' = [sub EXCEPT !.messages =
                           add_messages(sub.messages, <<AIMessage(verdict)>>)]
          /\ model_calls' = Append(model_calls, ModelCall("critic", "ok"))
          /\ pc' = "diagnosis_end"
       \/ /\ ~Falsy(StateGet(sub.diagnosis_draft, None))
          /\ UNCHANGED sub
          /\ model_calls' = Append(model_calls,
                                ModelCall("critic", ModelError))
          /\ pc' = "raised"
    /\ UNCHANGED <<user_turns, messages, agent_status, user_intent,
                   pet_profile, turn_end>>

CriticNode ==
    /\ pc = "diagnosis_critic_node"
    /\ UNCHANGED calc
    /\ \/ /\ Falsy(StateGet(sub.diagnosis_draft, None))
          /\ sub' = [sub EXCEPT !.messages =
                        add_messages(sub.messages,
                                     <<AIMessage("fallback_no_draft")>>)]
          /\ UNCHANGED model_calls
       \/ /\ ~Falsy(StateGet(sub.diagnosis_draft, None))
          /\ \E verdict \in {"final_approved", "final_rejected"} :
                sub' = [sub EXCEPT !.messages =
                           add_messages(sub.messages, <<AIMessage(verdict)>>)]
          /\ model_calls' = Append(model_calls, ModelCall("critic", "ok"))
       \/ /\ ~Falsy(StateGet(sub.diagnosis_draft, None))
          /\ sub' = [sub EXCEPT !.messages =
                        add_messages(sub.messages,
                                     <<AIMessage("fallback_system_error")>>)]
          /\ model_calls' = Append(model_calls,
                                ModelCall("critic", ModelError))
    /\ pc' = "diagnosis_end"
    /\ UNCHANGED <<user_turns, messages, agent_status, user_intent,
                   pet_profile, turn_end>>

\* the subgraph node's writes reach the parent, then the edge to END
DiagnosisSubgraphEnd ==
    /\ pc = "diagnosis_end"
    /\ UNCHANGED calc
    /\ messages' = add_messages(messages, sub.messages)
    /\ agent_status' = IF sub.agent_status = <<>> THEN agent_status
                       ELSE sub.agent_status
    /\ pet_profile' = IF sub.pet_profile = <<>> THEN pet_profile
                      ELSE sub.pet_profile
    /\ EndInvocation(sub)
    /\ UNCHANGED <<user_turns, user_intent>>

----------------------------------------------------------------------------
(* The session: one thread, one MemorySaver, turns strictly in sequence.   *)

Init ==
    /\ pc = "await_input"
    /\ user_turns = 0
    /\ messages = <<>>
    /\ agent_status = <<>>
    /\ user_intent = <<>>
    /\ pet_profile = <<>>
    /\ sub = NoSub
    /\ model_calls = <<>>
    /\ turn_end = NoTurn
    /\ ev = Idle
    /\ mg = Idle
    /\ sr = Idle
    /\ rn = Idle
    /\ pr = Idle
    /\ ss = Idle

Next ==
    \/ UserInput
    \/ UserQuit
    \/ OrchestratorNode
    \/ ExtractorNode
    \/ InquiryNode
    \/ InquirySubgraphEnd
    \/ QueryGeneratorNode
    \/ RetrieverNode
    \/ ActorNode
    \/ CriticNode
    \/ DiagnosisSubgraphEnd
    \/ SessionExcept

Spec == Init /\ [][Next]_vars

----------------------------------------------------------------------------
(* inquiry_node on its own: every DiagnosisState the node may be handed,   *)
(* within the bounds, and the one step the node takes from it.             *)

\* the profiles PetProfile(**raw) constructs from the raw outputs
NodeProfiles == {PetProfileCtor(raw) : raw \in {r \in RawDeltas : ValidRaw(r)}}

\* message histories ending with the user's message
NodeHistories ==
    {add_messages(<<>>, <<HumanMessage("utterance")>>),
     add_messages(<<>>, <<HumanMessage("utterance"),
                         AIMessage("question_mandatory"),
                         HumanMessage("utterance")>>)}

\* a counter key: never written, or holding a count up to max
CounterChannels(max) == {<<>>} \cup {<<n>> : n \in 0..max}

InitNode ==
    /\ pc = "inquiry_node"
    /\ messages \in NodeHistories
    /\ user_turns = Cardinality({i \in 1..Len(messages) :
                                    messages[i].type = "human"})
    /\ agent_status = <<AgentStatus_INQUIRY>>
    /\ user_intent = <<"intent_diagnosis">>
    /\ pet_profile \in {<<p>> : p \in NodeProfiles}
    /\ sub \in {[NoSub EXCEPT !.messages = messages,
                              !.agent_status = agent_status,
                              !.pet_profile = pet_profile,
                              !.inquiry_turns = t,
                              !.additional_inquiry_turns = a] :
                   t \in CounterChannels(MaxNodeTurns),
                   a \in CounterChannels(MaxNodeAdditional)}
    /\ model_calls = <<ModelCall("extractor_model", "ok")>>
    /\ turn_end = NoTurn
    /\ ev = Idle
    /\ mg = Idle
    /\ sr = Idle
    /\ rn = Idle
    /\ pr = Idle
    /\ ss = Idle

NextNode == InquiryNode

SpecNode == InitNode /\ [][NextNode]_vars

----------------------------------------------------------------------------
(* Properties.  The preconditions are stated on the profile's fields, not  *)
(* through the operators that model inquiry_node.                          *)

\* some mandatory field is absent
MandatoryMissing(p) ==
    \/ p.species \in {None, s_unknown}
    \/ p.name = None
    \/ p.breed = None
    \/ p.symptoms = <<>>

\* some optional field is absent
OptionalMissing(p) == p.age = None \/ p.sex = None \/ p.weight = None

IsQuestion(m) ==
    m.type = "ai" /\ m.content \in {"question_mandatory", "question_optional"}

\* the messages of `after` that follow the history `before`
Appended(before, after) == SubSeq(after, Len(before) + 1, Len(after))

CountWhere(seq, content) ==
    Cardinality({i \in 1..Len(seq) : seq[i].content = content})

\* the state inquiry_node reads
NodeProfile == StateGet(sub.pet_profile, EmptyProfile)

NodeTurns == StateGet(sub.inquiry_turns, 0)

NodeAdditional == StateGet(sub.additional_inquiry_turns, 0)

\* C1: the inquiry loop reaches READY or ABORTED within at most 3
\* mandatory-question iterations: a session never holds more than 3
\* mandatory questions
C1_InquiryBounded ==
    CountWhere(messages, "question_mandatory") <= InquiryTurnLimit

\* C2: a turn that follows a turn ended mid-inquiry starts its inquiry
\* subgraph with the status, profile, inquiry_turns, additional_inquiry_turns
\* and message history the previous turn ended with (plus the new message)
C2_ResumesWhereItEnded ==
    (pc = "extractor_node"
     /\ StateGet(turn_end.agent_status, "") = AgentStatus_INQUIRY)
    => /\ sub.agent_status = turn_end.agent_status
       /\ sub.pet_profile = turn_end.pet_profile
       /\ StateGet(sub.inquiry_turns, 0) = StateGet(turn_end.inquiry_turns, 0)
       /\ StateGet(sub.additional_inquiry_turns, 0)
              = StateGet(turn_end.additional_inquiry_turns, 0)
       /\ SubSeq(sub.messages, 1, Len(sub.messages) - 1) = turn_end.messages

\* C3: with a mandatory field missing and inquiry_turns at 3 or more,
\* inquiry_node returns END, appends no message and calls no model
C3_AbortAtLimit ==
    [][(pc = "inquiry_node" /\ MandatoryMissing(NodeProfile)
        /\ NodeTurns >= 3)
       => /\ pc' = "inquiry_end"
          /\ sub'.agent_status = <<AgentStatus_END>>
          /\ sub'.messages = sub.messages
          /\ model_calls' = model_calls]_vars

C3_Witness ==
    /\ pc = "inquiry_end"
    /\ sub.agent_status = <<AgentStatus_END>>
    /\ MandatoryMissing(NodeProfile)
    /\ NodeTurns = 4
    /\ Len(sub.messages) = 3

\* C4: with a mandatory field missing and inquiry_turns below 3,
\* inquiry_node emits exactly one question, adds exactly 1 to inquiry_turns
\* and leaves additional_inquiry_turns and agent_status as they were
C4_AsksMandatory ==
    [][(pc = "inquiry_node" /\ MandatoryMissing(NodeProfile)
        /\ NodeTurns < 3)
       => /\ pc' = "inquiry_end"
          /\ Len(Appended(sub.messages, sub'.messages)) = 1
          /\ IsQuestion(sub'.messages[Len(sub'.messages)])
          /\ SubSeq(sub'.messages, 1, Len(sub.messages)) = sub.messages
          /\ StateGet(sub'.inquiry_turns, 0) = NodeTurns + 1
          /\ StateGet(sub'.additional_inquiry_turns, 0) = NodeAdditional
          /\ sub'.agent_status = sub.agent_status]_vars

\* C5: with every mandatory field present and no optional field missing,
\* or the additional round used, or inquiry_turns >= 3, inquiry_node returns
\* DIAGNOSIS, appends no question and does not call the question model
C5_ReadyWithoutAsking ==
    [][(pc = "inquiry_node" /\ ~MandatoryMissing(NodeProfile)
        /\ (~OptionalMissing(NodeProfile) \/ NodeAdditional > 0
            \/ NodeTurns >= 3))
       => /\ pc' = "inquiry_end"
          /\ sub'.agent_status = <<AgentStatus_DIAGNOSIS>>
          /\ \A i \in 1..Len(Appended(sub.messages, sub'.messages)) :
                ~IsQuestion(Appended(sub.messages, sub'.messages)[i])
          /\ SubSeq(sub'.messages, 1, Len(sub.messages)) = sub.messages
          /\ model_calls' = model_calls]_vars

C5_Witness ==
    /\ pc = "inquiry_end"
    /\ sub.agent_status = <<AgentStatus_DIAGNOSIS>>
    /\ ~MandatoryMissing(NodeProfile)
    /\ OptionalMissing(NodeProfile)
    /\ NodeAdditional = 1
    /\ NodeTurns = 2
    /\ model_calls = <<ModelCall("extractor_model", "ok")>>

\* C6: with every mandatory field present, an optional field missing, no
\* additional round used and inquiry_turns below 3, inquiry_node asks one
\* optional-field question, adds 1 to additional_inquiry_turns and leaves
\* agent_status as it was
C6_AsksOptionalOnce ==
    [][(pc = "inquiry_node" /\ ~MandatoryMissing(NodeProfile)
        /\ OptionalMissing(NodeProfile) /\ NodeAdditional = 0
        /\ NodeTurns < 3)
       => /\ pc' = "inquiry_end"
          /\ Appended(sub.messages, sub'.messages)
                 = <<[type |-> "ai", content |-> "question_optional",
                      id |-> Len(sub.messages) + 1]>>
          /\ StateGet(sub'.additional_inquiry_turns, 0) = 1
          /\ sub'.agent_status = sub.agent_status]_vars

\* C7: over a session at most one optional-field round is asked and
\* additional_inquiry_turns never exceeds 1
C7_OneOptionalRound ==
    /\ CountWhere(messages, "question_optional") <= 1
    /\ NodeAdditional <= 1
    /\ StateGet(turn_end.additional_inquiry_turns, 0) <= 1

\* C8: once agent_status is DIAGNOSIS or END it never becomes INQUIRY or
\* INITIALIZED again
C8_StatusMovesForward ==
    [][StateGet(agent_status, "") \in {AgentStatus_DIAGNOSIS, AgentStatus_END}
       => StateGet(agent_status', "")
              \notin {AgentStatus_INQUIRY, AgentStatus_INITIALIZED}]_vars

\* C9: when the extraction model call fails, extractor_node returns the
\* stored profile unchanged and raises nothing
C9_ExtractionFailureKeepsProfile ==
    [][(pc = "extractor_node"
        /\ model_calls' = Append(model_calls,
                              ModelCall("extractor_model", ModelError)))
       => /\ pc' = "inquiry_node"
          /\ sub'.pet_profile = <<StateGet(sub.pet_profile, EmptyProfile)>>]_vars

\* C10: a failure of the intent-classification call or of the question
\* call never reaches the session loop as an exception
C10_ModelFailureCaught ==
    ~(/\ pc = "raised"
      /\ model_calls # <<>>
      /\ model_calls[Len(model_calls)].outcome = ModelError
      /\ model_calls[Len(model_calls)].site
             \in {"orchestrator_model", "inquiry_model"})

----------------------------------------------------------------------------
(* merge_profiles on its own: a profile, built by the constructor or       *)
(* empty, takes a chain of extraction deltas; each delta is the validated  *)
(* PetProfile the structured-output call builds from the model's raw JSON. *)

\* raw extractions naming the pet
MergeRawName ==
    {[EmptyProfile EXCEPT !.name = v] :
        v \in {s_rex, s_max, s_Unknown, s_na_padded}}

\* raw extractions naming the species
MergeRawSpecies ==
    {[EmptyProfile EXCEPT !.species = v] : v \in {s_dog, s_cat, s_Unknown}}

\* raw extractions listing symptoms
MergeRawSymptoms ==
    {[EmptyProfile EXCEPT !.symptoms = v] :
        v \in {<<s_vomit_padded>>, <<s_vomit_upper, s_vomit>>,
               <<s_vomit, s_vomit>>}}

\* raw extractions of the optional fields, and one of everything at once
MergeRawOptional ==
    {[EmptyProfile EXCEPT !.breed = s_beagle],
     [EmptyProfile EXCEPT !.breed = s_empty, !.age = s_two],
     [EmptyProfile EXCEPT !.age = s_blank, !.language = s_not_provided],
     [EmptyProfile EXCEPT !.name = s_rex, !.species = s_dog,
                          !.breed = s_beagle, !.symptoms = <<s_vomit_upper>>,
                          !.age = s_null, !.language = s_english]}

\* the raw field values of one extraction that pydantic accepts
MergeRaw ==
    {r \in {EmptyProfile} \cup MergeRawName \cup MergeRawSpecies
              \cup MergeRawSymptoms \cup MergeRawOptional : ValidRaw(r)}

\* the profile a chain of merges works on: the result of the latest call
MergeLatest == IF mg.stage = "repeated" THEN mg.again ELSE mg.merged

InitMerge ==
    /\ pc = "merge_profiles"
    /\ user_turns = 0
    /\ messages = <<>>
    /\ agent_status = <<>>
    /\ user_intent = <<>>
    /\ pet_profile = <<>>
    /\ sub = NoSub
    /\ model_calls = <<>>
    /\ turn_end = NoTurn
    /\ ev = Idle
    /\ sr = Idle
    /\ rn = Idle
    /\ pr = Idle
    /\ ss = Idle
    /\ mg \in {[stage |-> "built", from_empty |-> raw = EmptyProfile,
                raw |-> raw, current |-> PetProfileCtor(raw),
                delta |-> EmptyProfile, merged |-> PetProfileCtor(raw),
                again |-> PetProfileCtor(raw),
                current_after |-> PetProfileCtor(raw),
                delta_after |-> EmptyProfile] : raw \in MergeRaw}

\* merged = merge_profiles(current, delta), delta built from a raw extraction
MergeCall ==
    /\ pc = "merge_profiles"
    /\ \E raw \in MergeRaw :
          LET current == MergeLatest
              new_delta == PetProfileCtor(raw)
              merged == merge_profiles(current, new_delta)
              heap == MergeHeap(current, new_delta)
          IN  mg' = [stage |-> "merged", from_empty |-> mg.from_empty,
                     raw |-> raw, current |-> current, delta |-> new_delta,
                     merged |-> merged, again |-> merged,
                     current_after |->
                         [current EXCEPT !.symptoms = heap["current"]],
                     delta_after |->
                         [new_delta EXCEPT !.symptoms = heap["new_delta"]]]
    /\ UNCHANGED <<pc, user_turns, messages, agent_status, user_intent,
                   pet_profile, sub, model_calls, turn_end, sr, rn,
                   pr, ss, ev>>

\* again = merge_profiles(merged, delta): the same delta merged once more
MergeRepeat ==
    /\ pc = "merge_profiles"
    /\ mg.stage = "merged"
    /\ mg' = [mg EXCEPT !.stage = "repeated",
                        !.again = merge_profiles(mg.merged, mg.delta)]
    /\ UNCHANGED <<pc, user_turns, messages, agent_status, user_intent,
                   pet_profile, sub, model_calls, turn_end, sr, rn,
                   pr, ss, ev>>

NextMerge == MergeCall \/ MergeRepeat

SpecMerge == InitMerge /\ [][NextMerge]_vars

----------------------------------------------------------------------------
(* Claims about merge_profiles and the PetProfile validators.              *)

MergeDone == mg.stage \in {"merged", "repeated"}

\* the string with its whitespace removed and its letters lowered
Fold(s) == Lower(SelectSeq(s, LAMBDA c : ~IsSpace(c)))

\* where a symptom first shows up, trimmed, among the items of a delta
FirstAt(items, x) ==
    CHOOSE i \in 1..Len(items) :
        /\ Strip(items[i]) = x
        /\ \A j \in 1..(i - 1) : Strip(items[j]) # x

\* the entries held before the call keep their places, and the entries the
\* call adds follow them in the order the delta first names them
FirstSeenOrder(before, items, after) ==
    /\ Len(after) >= Len(before)
    /\ SubSeq(after, 1, Len(before)) = before
    /\ \A i \in (Len(before) + 1)..Len(after) :
          /\ \E k \in 1..Len(items) : Strip(items[k]) = after[i]
          /\ \A j \in (Len(before) + 1)..(i - 1) :
                FirstAt(items, after[j]) < FirstAt(items, after[i])
    /\ \A k \in 1..Len(items) :
          Strip(items[k]) # <<>> => InSeq(Strip(items[k]), after)

\* C11: merging the same delta a second time changes nothing:
\* merge(merge(p, d), d) = merge(p, d)
C11_MergeIdempotent ==
    mg.stage = "repeated" => mg.again = mg.merged

C11_Witness ==
    /\ mg.stage = "repeated"
    /\ mg.delta.name # None
    /\ mg.current.name \notin {None, mg.delta.name}
    /\ Len(mg.merged.symptoms) > Len(mg.current.symptoms)

C13_AbsentFieldsUntouched ==
    MergeDone
    => /\ \A f \in ScalarFields :
              mg.delta[f] = None => mg.merged[f] = mg.current[f]
       /\ mg.delta.symptoms = <<>> => mg.merged.symptoms = mg.current.symptoms
       /\ mg.current_after = mg.current
       /\ mg.delta_after = mg.delta

C13_Witness ==
    /\ mg.stage = "merged"
    /\ mg.current.name # None
    /\ mg.delta.name = None
    /\ mg.current.symptoms # <<>>
    /\ Len(mg.merged.symptoms) > Len(mg.current.symptoms)
    /\ mg.current_after.symptoms = mg.current.symptoms

\* C14: every scalar field the delta holds has the delta's value in the
\* merged profile, whatever current held
C14_LastWriterWins ==
    MergeDone
    => \A f \in ScalarFields :
           mg.delta[f] # None => mg.merged[f] = mg.delta[f]

C14_Witness ==
    /\ mg.stage = "merged"
    /\ mg.current.name # None
    /\ mg.delta.name # None
    /\ mg.delta.name # mg.current.name
    /\ mg.merged.name = mg.delta.name

\* a scalar field's value that is absent or means something
Meaningful(v) ==
    v = None \/ Lower(Strip(v)) \notin {s_empty, s_unknown, s_na, s_null}

WellFormedScalars(p) ==
    /\ \A f \in ScalarFields : Meaningful(p[f])
    /\ p.species # SpeciesEnum_UNKNOWN

\* C15: in every profile built by the constructor or by merges, each scalar
\* field is absent or meaningful: never "", "unknown", "n/a" or "null" in
\* any letter case or padding, and species is never UNKNOWN
C15_ScalarsMeaningfulOrAbsent ==
    /\ WellFormedScalars(mg.current)
    /\ WellFormedScalars(mg.delta)
    /\ WellFormedScalars(mg.merged)
    /\ WellFormedScalars(mg.again)

C15_Witness ==
    /\ mg.stage = "merged"
    /\ mg.raw.name = s_Unknown
    /\ mg.delta.name = None
    /\ mg.current.name # None
    /\ mg.merged.name = mg.current.name

\* C16: inquiry_node, the query planner, the retriever, the actor and the
\* critic leave the stored profile as they found it, in the subgraph's
\* state and in the session's
C16_ProfileChangedOnlyByExtractor ==
    [][(pc \in {"inquiry_node", "diagnostic_query_generator_node",
                "diagnostic_retrieve_node", "diagnosis_actor_node",
                "diagnosis_critic_node"})
       => (sub'.pet_profile = sub.pet_profile
           /\ pet_profile' = pet_profile)]_vars

C16_Witness ==
    /\ pc = "diagnosis_end"
    /\ sub.pet_profile # <<>>
    /\ sub.pet_profile = pet_profile
    /\ ~MandatoryMissing(sub.pet_profile[1])
    /\ sub.diagnosis_draft # <<>>

----------------------------------------------------------------------------
(* Retriever: reciprocal rank fusion of the dense and the sparse recall,   *)
(* then re-ranking or truncation.  Scores are exact: a fused score is kept *)
(* as a whole number of 1/ScoreUnits, ScoreUnits being a common multiple   *)
(* of the denominators k + rank + 1 that occur.                            *)

RRF_k == 40
weight_dense == 1
weight_sparse == 1

RECURSIVE Gcd(_, _)
Gcd(a, b) == IF b = 0 THEN a ELSE Gcd(b, a % b)

RECURSIVE ScoreUnitsUpTo(_)
ScoreUnitsUpTo(n) ==
    IF n = 0 THEN 1
    ELSE LET u == ScoreUnitsUpTo(n - 1)
             d == RRF_k + n
         IN  (u * d) \div Gcd(u, d)

ScoreUnits == ScoreUnitsUpTo(MaxHits)

\* the term with the rank counted from 1
RRFTerm_RankFromOne(rank, weight) ==
    (ScoreUnits \div (RRF_k + rank + 2)) * weight

\* 1 / (k + rank + 1) * weight, rank counted from 0
RRFTerm(rank, weight) == (ScoreUnits \div (RRF_k + rank + 1)) * weight

\* an entry's score keeping the best single term instead of the sum
FuseScore_Max(score, term) == IF term > score THEN term ELSE score

\* fused_scores[hit.id]["score"] += term
FuseScore(score, term) == score + term

DocIds == 1..MaxHits

\* a point the vector store returns: its id and its payload text
Hit(id) == [id |-> id, text |-> <<"text", id>>]

\* the result lists of one query_points call: points of distinct ids
HitLists ==
    {[i \in 1..Len(ids) |-> Hit(ids[i])] :
        ids \in {q \in UNION {[1..n -> DocIds] : n \in 0..MaxHits} :
                    \A i, j \in 1..Len(q) : i # j => q[i] # q[j]}}

\* position of id among the entries of fused_scores, 0 when it has none
EntryIndex(fused_scores, id) ==
    IF \E i \in 1..Len(fused_scores) : fused_scores[i].hit.id = id
    THEN CHOOSE i \in 1..Len(fused_scores) : fused_scores[i].hit.id = id
    ELSE 0

RECURSIVE FuseHits(_, _, _, _, _)
\* one enumerate loop of _reciprocal_rank_fusion, from the i-th hit on;
\* fused_scores lists the dict's entries in insertion order
FuseHits(fused_scores, hits, i, weight, tag) ==
    IF i > Len(hits) THEN fused_scores
    ELSE LET hit == hits[i]
             known == IF EntryIndex(fused_scores, hit.id) = 0
                      THEN Append(fused_scores,
                                  [hit |-> hit, score |-> 0, sources |-> <<>>])
                      ELSE fused_scores
             at == EntryIndex(known, hit.id)
             added == [known EXCEPT
                          ![at].score = FuseScore(@, RRFTerm(i - 1, weight)),
                          ![at].sources = Append(@, tag)]
         IN  FuseHits(added, hits, i + 1, weight, tag)

\* x put behind every entry that scores at least as much
InsertByScore(sorted, x) ==
    LET ahead == Cardinality({i \in 1..Len(sorted) : sorted[i].score >= x.score})
    IN  SubSeq(sorted, 1, ahead) \o <<x>> \o SubSeq(sorted, ahead + 1, Len(sorted))

\* the list left in the order it came in
SortedByScore_Unsorted(seq) == seq

RECURSIVE SortedByScore(_)
\* sorted(..., key=score, reverse=True): descending, ties in their old order
SortedByScore(seq) ==
    IF seq = <<>> THEN <<>>
    ELSE InsertByScore(SortedByScore(SubSeq(seq, 1, Len(seq) - 1)),
                       seq[Len(seq)])

_reciprocal_rank_fusion(dense_results, sparse_results) ==
    SortedByScore(
        FuseHits(FuseHits(<<>>, dense_results, 1, weight_dense, "dense"),
                 sparse_results, 1, weight_sparse, "sparse"))

RECURSIVE JoinPlus(_)
\* "+".join(parts)
JoinPlus(parts) ==
    IF parts = <<>> THEN ""
    ELSE IF Len(parts) = 1 THEN parts[1]
    ELSE parts[1] \o "+" \o JoinPlus(Tail(parts))

\* seq[:n] with the slice left out
Take_All(seq, n) == seq

\* seq[:n]
Take(seq, n) == SubSeq(seq, 1, IF n < Len(seq) THEN n ELSE Len(seq))

SearchResult(id, score, text, source) ==
    [id |-> id, score |-> score, text |-> text, source |-> source]

\* the passages handed to the re-ranker, in fused order
Candidates(fused_results) ==
    [i \in 1..Len(fused_results) |->
        [id |-> fused_results[i].hit.id, text |-> fused_results[i].hit.text]]

\* what ranker.rerank may return: the passages in an order of its own,
\* scored in descending order
RerankOutputs(candidates) ==
    {[i \in 1..Len(candidates) |->
         [id |-> candidates[order[i]].id, text |-> candidates[order[i]].text,
          score |-> Len(candidates) + 1 - i]] :
        order \in {f \in [1..Len(candidates) -> 1..Len(candidates)] :
                      \A i, j \in 1..Len(candidates) : i # j => f[i] # f[j]}}

\* recall_limit: int = 40
recall_limit == 40

\* the pet_profile the node may hold when it calls search: none, or a
\* PetProfile built from a species the extraction model named
SearchProfiles ==
    {<<>>} \cup {<<PetProfileCtor([EmptyProfile EXCEPT !.species = sp])>> :
                    sp \in {None, s_dog, s_unknown, s_Unknown}}

\* the node's species_filter with the test on the profile left out: the
\* string of whatever the profile holds
species_filter_Always(profile) ==
    IF profile = <<>> THEN s_None
    ELSE IF profile[1].species = None THEN s_None ELSE profile[1].species

\* the node's species_filter: None unless `pet_profile and
\* pet_profile.species`, else the enum's value
species_filter(profile) ==
    IF profile = <<>> THEN None
    ELSE IF Falsy(profile[1].species) THEN None
    ELSE profile[1].species

\* models.Filter(must=[...]), or None
NoFilter == [filter |-> FALSE, must |-> <<>>]

FieldCondition(key, value) == [key |-> key, match |-> value]

\* _build_qdrant_filter on the one-key dict the node passes
_build_qdrant_filter(filters) ==
    LET must_conditions ==
            IF filters.species = None THEN <<>>
            ELSE <<FieldCondition("species", filters.species)>>
    IN  IF must_conditions = <<>> THEN NoFilter
        ELSE [filter |-> TRUE, must |-> must_conditions]

\* the arguments of one client.query_points call
QueryPoints(using, limit, query_filter) ==
    [using |-> using, limit |-> limit, query_filter |-> query_filter]

\* no query_points call made yet
NoQuery == [using |-> "", limit |-> 0, query_filter |-> NoFilter]

InitSearch ==
    /\ pc = "search"
    /\ user_turns = 0
    /\ messages = <<>>
    /\ agent_status = <<>>
    /\ user_intent = <<>>
    /\ pet_profile = <<>>
    /\ sub = NoSub
    /\ model_calls = <<>>
    /\ turn_end = NoTurn
    /\ ev = Idle
    /\ mg = Idle
    /\ rn = Idle
    /\ pr = Idle
    /\ ss = Idle
    /\ sr \in [stage : {"called"}, use_reranker : BOOLEAN,
               pet_profile : SearchProfiles,
               dense_query : {NoQuery}, sparse_query : {NoQuery},
               dense_hits : {<<>>}, sparse_hits : {<<>>},
               fused_results : {<<>>}, rerank_results : {<<>>},
               final_results : {<<>>}]

\* Steps 0 to 2 of search, called by the node with filters={"species": ...}
\* and no recall_limit: the filter is built once, both query_points calls
\* get it, and each answers with the points it found
SearchRecall ==
    /\ pc = "search"
    /\ sr.stage = "called"
    /\ LET filters == [species |-> species_filter(sr.pet_profile)]
           qdrant_filter == _build_qdrant_filter(filters)
       IN  \E dense_hits \in HitLists : \E sparse_hits \in HitLists :
              sr' = [sr EXCEPT
                  !.stage = "recalled",
                  !.dense_query = QueryPoints("dense", recall_limit,
                                              qdrant_filter),
                  !.sparse_query = QueryPoints("sparse", recall_limit,
                                               qdrant_filter),
                  !.dense_hits = dense_hits,
                  !.sparse_hits = sparse_hits]
    /\ UNCHANGED <<pc, user_turns, messages, agent_status, user_intent,
                   pet_profile, sub, model_calls, turn_end, mg, rn,
                   pr, ss, ev>>

\* Step 3 of search: fused_results = _reciprocal_rank_fusion(dense, sparse)
SearchFuse ==
    /\ pc = "search"
    /\ sr.stage = "recalled"
    /\ sr' = [sr EXCEPT
                 !.stage = "fused",
                 !.fused_results =
                     _reciprocal_rank_fusion(sr.dense_hits, sr.sparse_hits)]
    /\ UNCHANGED <<pc, user_turns, messages, agent_status, user_intent,
                   pet_profile, sub, model_calls, turn_end, mg, rn,
                   pr, ss, ev>>

\* Step 4 with the re-ranker: its output, cut to limit, tagged "reranked"
SearchRerank ==
    /\ pc = "search"
    /\ sr.stage = "fused"
    /\ sr.use_reranker /\ Candidates(sr.fused_results) # <<>>
    /\ \E rerank_results \in RerankOutputs(Candidates(sr.fused_results)) :
          sr' = [sr EXCEPT
                    !.stage = "returned",
                    !.rerank_results = rerank_results,
                    !.final_results =
                        [i \in 1..Len(Take(rerank_results, SearchLimit)) |->
                            SearchResult(rerank_results[i].id,
                                         rerank_results[i].score,
                                         rerank_results[i].text,
                                         "reranked")]]
    /\ UNCHANGED <<pc, user_turns, messages, agent_status, user_intent,
                   pet_profile, sub, model_calls, turn_end, mg, rn,
                   pr, ss, ev>>

\* Step 4 without it: the fused list cut to limit, tagged with its sources
SearchTruncate ==
    /\ pc = "search"
    /\ sr.stage = "fused"
    /\ ~(sr.use_reranker /\ Candidates(sr.fused_results) # <<>>)
    /\ sr' = [sr EXCEPT
                 !.stage = "returned",
                 !.final_results =
                     [i \in 1..Len(Take(sr.fused_results, SearchLimit)) |->
                         SearchResult(sr.fused_results[i].hit.id,
                                      sr.fused_results[i].score,
                                      sr.fused_results[i].hit.text,
                                      JoinPlus(sr.fused_results[i].sources))]]
    /\ UNCHANGED <<pc, user_turns, messages, agent_status, user_intent,
                   pet_profile, sub, model_calls, turn_end, mg, rn,
                   pr, ss, ev>>

NextSearch == SearchRecall \/ SearchFuse \/ SearchRerank \/ SearchTruncate

SpecSearch == InitSearch /\ [][NextSearch]_vars

----------------------------------------------------------------------------
(* Claims about Retriever.                                                 *)

\* the 0-based rank of id in a hit list, -1 when the list does not hold it
RankIn(hits, id) ==
    IF \E i \in 1..Len(hits) : hits[i].id = id
    THEN (CHOOSE i \in 1..Len(hits) : hits[i].id = id) - 1
    ELSE -1

\* the source lists that returned id
ListsHolding(id) ==
    {tag \in {"dense", "sparse"} :
        RankIn(IF tag = "dense" THEN sr.dense_hits ELSE sr.sparse_hits, id) >= 0}

\* the source lists a provenance tag names
ListsNamed(source) ==
    CASE source = "dense" -> {"dense"}
      [] source = "sparse" -> {"sparse"}
      [] source = "dense+sparse" -> {"dense", "sparse"}
      [] source = "sparse+dense" -> {"dense", "sparse"}
      [] OTHER -> {}

\* C17: an item the dense and the sparse list both hold, at ranks r1 and
\* r2, is fused to a strictly higher score than the score of an item held
\* by one list only at rank min(r1, r2), which is the single term of that
\* rank; it also stands ahead of every such item of the same fusion
C17_BothListsBeatOne ==
    sr.stage \in {"fused", "returned"}
    => \A a \in 1..Len(sr.fused_results) :
         LET e == sr.fused_results[a]
             r1 == RankIn(sr.dense_hits, e.hit.id)
             r2 == RankIn(sr.sparse_hits, e.hit.id)
             least == IF r1 < r2 THEN r1 ELSE r2
         IN  IF r1 >= 0 /\ r2 >= 0
             THEN /\ e.score > RRFTerm(least, 1)
                  /\ \A b \in 1..Len(sr.fused_results) :
                        LET o == sr.fused_results[b]
                            q1 == RankIn(sr.dense_hits, o.hit.id)
                            q2 == RankIn(sr.sparse_hits, o.hit.id)
                        IN  ((q1 = -1 /\ q2 = least) \/ (q2 = -1 /\ q1 = least))
                            => (e.score > o.score /\ a < b)
             ELSE e.score = RRFTerm(IF r1 >= 0 THEN r1 ELSE r2, 1)

C17_Witness ==
    /\ sr.stage = "fused"
    /\ \E a, b \in 1..Len(sr.fused_results) :
          /\ RankIn(sr.dense_hits, sr.fused_results[a].hit.id) = 1
          /\ RankIn(sr.sparse_hits, sr.fused_results[a].hit.id) = 0
          /\ RankIn(sr.dense_hits, sr.fused_results[b].hit.id) = 0
          /\ RankIn(sr.sparse_hits, sr.fused_results[b].hit.id) = -1
          /\ a < b

\* C18: every item a search returns carries a provenance tag naming every
\* source list, dense or sparse, that returned it, with the re-ranker on
\* or off
C18_ProvenanceNamesSources ==
    sr.stage = "returned"
    => \A i \in 1..Len(sr.final_results) :
           ListsHolding(sr.final_results[i].id)
               \subseteq ListsNamed(sr.final_results[i].source)

----------------------------------------------------------------------------
(* diagnosis_retriever_node: one search per planner query, the results     *)
(* merged by id, sorted by score and cut to the top 5.                     *)

TopK == 5

\* a search call returning results
Returns(results) == [raised |-> FALSE, results |-> results]

\* a search call raising instead
Raises == [raised |-> TRUE, results |-> <<>>]

\* the levels a re-ranker score takes
ScoreLevels == {1, 2}

\* the ids that may follow ids in a result list when earlier searches
\* returned the ids 1..known: one of those not in the list yet, or a new
\* id, new ids being numbered as they appear
NextIds(known, ids) ==
    LET listed == {ids[i] : i \in 1..Len(ids)}
    IN  ((1..known) \ listed)
        \cup {known + 1 + Cardinality({x \in listed : x > known})}

RECURSIVE IdListsOfLen(_, _)
IdListsOfLen(known, n) ==
    IF n = 0 THEN {<<>>}
    ELSE UNION {{Append(ids, x) : x \in NextIds(known, ids)} :
                ids \in IdListsOfLen(known, n - 1)}

\* the ids of the result lists of a search: no id twice
IdLists(known) == UNION {IdListsOfLen(known, n) : n \in 0..MaxPerQuery}

\* the scores of a result list of length n, best first
ScoreLists(n) ==
    {sc \in [1..n -> ScoreLevels] : \A i \in 1..(n - 1) : sc[i] >= sc[i + 1]}

\* retriever.search returning the ids with the scores, re-ranked
SearchCall(ids, sc) ==
    Returns([i \in 1..Len(ids) |->
                SearchResult(ids[i], sc[i], Hit(ids[i]).text, "reranked")])

\* the largest id among the results so far, 0 when there is none
LargestId(all_results) ==
    IF all_results = <<>> THEN 0
    ELSE CHOOSE m \in {all_results[i].id : i \in 1..Len(all_results)} :
             \A i \in 1..Len(all_results) : all_results[i].id <= m

\* the number of queries the planner leaves in search_queries
QueryCounts == {0, 1, 2}

RECURSIVE DictById_KeepAll(_, _)
\* the results listed without merging equal ids
DictById_KeepAll(unique_docs_map, all_results) ==
    IF all_results = <<>> THEN unique_docs_map
    ELSE DictById_KeepAll(Append(unique_docs_map, Head(all_results)),
                          Tail(all_results))

RECURSIVE DictById(_, _)
\* {res.id: res for res in all_results}: a key keeps the place of its
\* first insertion and takes the value of its last
DictById(unique_docs_map, all_results) ==
    IF all_results = <<>> THEN unique_docs_map
    ELSE LET res == Head(all_results)
             held == {i \in 1..Len(unique_docs_map) :
                         unique_docs_map[i].id = res.id}
         IN  DictById(
                 IF held = {} THEN Append(unique_docs_map, res)
                 ELSE [unique_docs_map EXCEPT ![CHOOSE i \in held : TRUE] = res],
                 Tail(all_results))

\* the string a document is shown to the model as
FormatDoc(doc) ==
    <<"Doc ID: ", doc.id, "Source: ", doc.source, "Symptoms: ", doc.text>>

InitRetrieverNode ==
    /\ pc = "diagnosis_retriever_node"
    /\ user_turns = 0
    /\ messages = <<>>
    /\ agent_status = <<>>
    /\ user_intent = <<>>
    /\ pet_profile = <<>>
    /\ sub = NoSub
    /\ model_calls = <<>>
    /\ turn_end = NoTurn
    /\ ev = Idle
    /\ mg = Idle
    /\ sr = Idle
    /\ pr = Idle
    /\ ss = Idle
    /\ rn \in [stage : {"called"}, queries : QueryCounts, outcomes : {<<>>},
               all_results : {<<>>}, unique_docs : {<<>>},
               final_docs : {<<>>}, retrieved_docs : {<<>>}]

\* no planner query: {"retrieved_docs": []}
RetrieverNoQueries ==
    /\ pc = "diagnosis_retriever_node"
    /\ rn.stage = "called"
    /\ rn.queries = 0
    /\ rn' = [rn EXCEPT !.stage = "skipped", !.retrieved_docs = <<>>]
    /\ UNCHANGED <<pc, user_turns, messages, agent_status, user_intent,
                   pet_profile, sub, model_calls, turn_end, mg, sr,
                   pr, ss, ev>>

\* one pass of the loop: the search of the next query returns and
\* all_results is extended by its results
RetrieverSearch ==
    /\ pc = "diagnosis_retriever_node"
    /\ rn.stage = "called"
    /\ Len(rn.outcomes) < rn.queries
    /\ \E ids \in IdLists(LargestId(rn.all_results)) :
          \E sc \in ScoreLists(Len(ids)) :
             rn' = [rn EXCEPT
                       !.outcomes = Append(@, SearchCall(ids, sc)),
                       !.all_results = @ \o SearchCall(ids, sc).results]
    /\ UNCHANGED <<pc, user_turns, messages, agent_status, user_intent,
                   pet_profile, sub, model_calls, turn_end, mg, sr,
                   pr, ss, ev>>

\* the exception of a failing call leaving the node
RetrieverFails_Propagates ==
    /\ pc = "diagnosis_retriever_node"
    /\ rn.stage = "called"
    /\ Len(rn.outcomes) < rn.queries
    /\ rn' = [rn EXCEPT !.stage = "raised",
                        !.outcomes = Append(@, Raises)]
    /\ UNCHANGED <<pc, user_turns, messages, agent_status, user_intent,
                   pet_profile, sub, model_calls, turn_end, mg, sr,
                   pr, ss, ev>>

\* the retriever's construction or the search of the next query raises:
\* the except branch returns {"retrieved_docs": []}
RetrieverFails ==
    /\ pc = "diagnosis_retriever_node"
    /\ rn.stage = "called"
    /\ Len(rn.outcomes) < rn.queries
    /\ rn' = [rn EXCEPT !.stage = "failed",
                        !.outcomes = Append(@, Raises),
                        !.retrieved_docs = <<>>]
    /\ UNCHANGED <<pc, user_turns, messages, agent_status, user_intent,
                   pet_profile, sub, model_calls, turn_end, mg, sr,
                   pr, ss, ev>>

\* every search returned: merge by id, sort by score, keep the top 5, format
RetrieverMerges ==
    /\ pc = "diagnosis_retriever_node"
    /\ rn.stage = "called"
    /\ rn.queries > 0
    /\ Len(rn.outcomes) = rn.queries
    /\ LET unique_docs == SortedByScore(DictById(<<>>, rn.all_results))
           final_docs == Take(unique_docs, TopK)
       IN  rn' = [rn EXCEPT
                     !.stage = "merged",
                     !.unique_docs = unique_docs,
                     !.final_docs = final_docs,
                     !.retrieved_docs =
                         [i \in 1..Len(final_docs) |-> FormatDoc(final_docs[i])]]
    /\ UNCHANGED <<pc, user_turns, messages, agent_status, user_intent,
                   pet_profile, sub, model_calls, turn_end, mg, sr,
                   pr, ss, ev>>

NextRetrieverNode ==
    RetrieverNoQueries \/ RetrieverSearch \/ RetrieverFails \/ RetrieverMerges

SpecRetrieverNode == InitRetrieverNode /\ [][NextRetrieverNode]_vars

----------------------------------------------------------------------------
(* Claims about diagnosis_retriever_node.                                  *)

\* where the results of all queries hold id, in the order they came
Occurrences(id) ==
    {i \in 1..Len(rn.all_results) : rn.all_results[i].id = id}

\* C19: an id returned for several planner queries is merged into one
\* entry that has the payload of its first occurrence and the highest
\* score among its occurrences
C19_FirstPayloadHighestScore ==
    rn.stage = "merged"
    => \A e \in 1..Len(rn.unique_docs) :
         LET doc == rn.unique_docs[e]
             occ == Occurrences(doc.id)
             first == CHOOSE i \in occ : \A j \in occ : i <= j
         IN  /\ doc.text = rn.all_results[first].text
             /\ \A i \in occ : doc.score >= rn.all_results[i].score

\* C20: the final evidence holds at most 5 entries, no two with the same id
C20_AtMostTopKDistinct ==
    rn.stage = "merged"
    => /\ Len(rn.final_docs) <= TopK
       /\ Len(rn.retrieved_docs) = Len(rn.final_docs)
       /\ \A i, j \in 1..Len(rn.final_docs) :
              i # j => rn.final_docs[i].id # rn.final_docs[j].id

C20_Witness ==
    /\ rn.stage = "merged"
    /\ Len(rn.all_results) > Len(rn.unique_docs)
    /\ Len(rn.unique_docs) > TopK
    /\ Len(rn.final_docs) = TopK

\* the evidence the results gathered so far would give: merged, sorted,
\* cut and formatted
EvidenceOf(all_results) ==
    LET final_docs == Take(SortedByScore(DictById(<<>>, all_results)), TopK)
    IN  [i \in 1..Len(final_docs) |-> FormatDoc(final_docs[i])]

\* C21: when the search of one planner query fails, the evidence is what
\* the searches that returned give; only the failing query adds nothing
C21_FailingQueryOnlyOmitted ==
    rn.stage = "failed" => rn.retrieved_docs = EvidenceOf(rn.all_results)

\* C22: with no planner query, and with a retrieval call that raises, the
\* node returns an empty evidence list and no exception leaves it
C22_EmptyEvidenceNoRaise ==
    /\ rn.stage # "raised"
    /\ (rn.queries = 0 /\ rn.stage # "called")
       => (rn.stage = "skipped" /\ rn.retrieved_docs = <<>>)
    /\ (\E q \in 1..Len(rn.outcomes) : rn.outcomes[q].raised)
       => (rn.stage = "failed" /\ rn.retrieved_docs = <<>>)

C22_Witness ==
    /\ rn.stage = "failed"
    /\ rn.queries = 2
    /\ Len(rn.outcomes) = 2
    /\ rn.all_results # <<>>
    /\ rn.retrieved_docs = <<>>

\* C30: the final evidence is in non-increasing score order, and no merged
\* entry left out scores strictly higher than an entry kept
C30_SortedHighestKept ==
    rn.stage = "merged"
    => /\ \A i \in 1..(Len(rn.final_docs) - 1) :
              rn.final_docs[i].score >= rn.final_docs[i + 1].score
       /\ \A out \in 1..Len(rn.unique_docs) :
              (\A i \in 1..Len(rn.final_docs) :
                   rn.final_docs[i].id # rn.unique_docs[out].id)
              => \A i \in 1..Len(rn.final_docs) :
                     rn.unique_docs[out].score <= rn.final_docs[i].score
       /\ \A i \in 1..Len(rn.final_docs) :
              \E e \in 1..Len(rn.unique_docs) :
                  rn.unique_docs[e] = rn.final_docs[i]

C30_Witness ==
    /\ rn.stage = "merged"
    /\ Len(rn.unique_docs) > TopK
    /\ Len(rn.final_docs) = TopK
    /\ rn.all_results[1].score < rn.final_docs[1].score
    /\ rn.final_docs[1].score > rn.unique_docs[Len(rn.unique_docs)].score

\* C29: the fused list has one entry for each id of the dense and the
\* sparse list and no other; an entry's score is the sum, over the lists
\* holding its id at 0-based rank r, of 1/(40 + r + 1); the entries stand
\* in non-increasing score order
C29_FusionScoresAndOrder ==
    sr.stage \in {"fused", "returned"}
    => LET ids == {sr.dense_hits[i].id : i \in 1..Len(sr.dense_hits)}
                  \cup {sr.sparse_hits[i].id : i \in 1..Len(sr.sparse_hits)}
           Share(r) == IF r >= 0 THEN ScoreUnits \div (40 + r + 1) ELSE 0
       IN  /\ Len(sr.fused_results) = Cardinality(ids)
           /\ {sr.fused_results[i].hit.id : i \in 1..Len(sr.fused_results)} = ids
           /\ \A i \in 1..Len(sr.fused_results) :
                 sr.fused_results[i].score
                     = Share(RankIn(sr.dense_hits, sr.fused_results[i].hit.id))
                       + Share(RankIn(sr.sparse_hits, sr.fused_results[i].hit.id))
           /\ \A i \in 1..(Len(sr.fused_results) - 1) :
                 sr.fused_results[i].score >= sr.fused_results[i + 1].score

C29_Witness ==
    /\ sr.stage = "fused"
    /\ Len(sr.fused_results) = MaxHits
    /\ Len(sr.dense_hits) >= 2
    /\ Len(sr.sparse_hits) >= 2
    /\ sr.dense_hits[1].id # sr.fused_results[1].hit.id
    /\ \E i \in 1..Len(sr.fused_results) :
          /\ RankIn(sr.dense_hits, sr.fused_results[i].hit.id) >= 0
          /\ RankIn(sr.sparse_hits, sr.fused_results[i].hit.id) = -1

----------------------------------------------------------------------------
(* The diagnosis pipeline of a session: planner, actor, critic.            *)

\* the newest message of a history
LastMessage(history) == history[Len(history)]

\* the model calls of this turn made at one of these sites
CallsAt(sites) == {i \in 1..Len(model_calls) : model_calls[i].site \in sites}

EvidenceEmpty == StateGet(sub.retrieved_docs, <<>>) = <<>>

\* C23: when retrieval left no evidence, the actor writes no draft and
\* calls no model, the critic calls no model either, and the message the
\* turn ends with is the hard-coded recommendation to consult a
\* veterinarian.
C23_EmptyEvidenceFallback ==
    [][(pc = "diagnosis_end" /\ EvidenceEmpty)
       => (/\ sub.diagnosis_draft = <<None>>
           /\ CallsAt({"actor", "critic"}) = {}
           /\ LastMessage(sub.messages) = [AIMessage("fallback_no_draft")
                 EXCEPT !.id = LastMessage(sub.messages).id]
           /\ Len(messages') = Len(messages) + 1
           /\ LastMessage(messages').type = "ai"
           /\ LastMessage(messages').content = "fallback_no_draft")]_vars

C23_Witness ==
    /\ pc = "diagnosis_end"
    /\ sub.retrieved_docs = <<<<>>>>
    /\ sub.search_queries # <<>>
    /\ sub.search_queries[1] # <<>>
    /\ LastMessage(sub.messages).content = "fallback_no_draft"

\* C24: whatever the actor and the critic models do, the critic step ends
\* the pipeline without an exception and appends exactly one assistant
\* message: the no-draft fallback when the actor left no draft, the
\* system-error fallback when the critic's call failed, and the critic's
\* final_response_to_user otherwise.
C24_OneAssistantMessage ==
    [][(pc \in {"diagnosis_actor_node", "diagnosis_critic_node"})
       => (/\ pc' = IF pc = "diagnosis_actor_node"
                    THEN "diagnosis_critic_node" ELSE "diagnosis_end"
           /\ pc = "diagnosis_actor_node" => sub'.messages = sub.messages
           /\ pc = "diagnosis_critic_node" =>
                LET appended == Appended(sub.messages, sub'.messages)
                    no_draft == Falsy(StateGet(sub.diagnosis_draft, None))
                    critic == CallsAt({"critic"})'
                    failed == \E i \in critic :
                                 model_calls'[i].outcome = ModelError
                IN  /\ SubSeq(sub'.messages, 1, Len(sub.messages))
                          = sub.messages
                    /\ Len(appended) = 1
                    /\ appended[1].type = "ai"
                    /\ no_draft => /\ appended[1].content = "fallback_no_draft"
                                   /\ critic = {}
                    /\ (~no_draft /\ failed)
                          => appended[1].content = "fallback_system_error"
                    /\ (~no_draft /\ ~failed)
                          => /\ Cardinality(critic) = 1
                             /\ appended[1].content
                                   \in {"final_approved", "final_rejected"})
      ]_vars

C24_Witness ==
    /\ pc = "diagnosis_end"
    /\ \E i \in 1..Len(model_calls) :
          model_calls[i] = ModelCall("actor", "ok")
    /\ model_calls[Len(model_calls)] = ModelCall("critic", ModelError)
    /\ LastMessage(sub.messages).content = "fallback_system_error"

\* C25: from a profile the planner step never raises; when its model call
\* succeeds it leaves exactly two queries, the simulated observation first
\* and the medical expansion second; when the call fails it leaves one
\* query, the species value, a space, and the symptoms joined by ", ".
C25_PlannerQueries ==
    [][(pc = "diagnostic_query_generator_node" /\ sub.pet_profile # <<>>)
       => (/\ pc' = "diagnostic_retrieve_node"
           /\ Len(model_calls') = Len(model_calls) + 1
           /\ LET call == model_calls'[Len(model_calls')]
                  profile == sub.pet_profile[1]
                  queries == StateGet(sub'.search_queries, <<>>)
              IN  /\ call.site = "query_generator"
                  /\ call.outcome = "ok"
                        => queries = <<simulated_observation,
                                       medical_expansion>>
                  /\ call.outcome = ModelError
                        => /\ Len(queries) = 1
                           /\ queries[1] =
                                (IF profile.species = None THEN s_None
                                 ELSE profile.species)
                                \o <<" ">> \o JoinComma(profile.symptoms))
      ]_vars

C25_Witness ==
    /\ pc = "diagnostic_retrieve_node"
    /\ model_calls # <<>>
    /\ model_calls[Len(model_calls)] = ModelCall("query_generator", ModelError)
    /\ Len(sub.pet_profile[1].symptoms) >= 2
    /\ sub.search_queries
          = <<<<sub.pet_profile[1].species \o <<" ">>
                  \o sub.pet_profile[1].symptoms[1] \o <<",", " ">>
                  \o sub.pet_profile[1].symptoms[2]>>>>

----------------------------------------------------------------------------
(* Parser.parse: batches run on a thread pool, each batch under a retry.   *)

\* the most 'Owner Observation' rows load_raw_data returns
MaxRecords == 3

\* the largest batch_size a Parser is built with
MaxBatchSize == 2

\* stop=stop_after_attempt(3)
stop_after_attempt == 3

\* df_owner["id"] = range(len(df_owner))
RecordIds(n) == [i \in 1..n |-> i - 1]

\* range(0, len(records), batch_size)
BatchStarts(n, batch_size) == {i \in 0..(n - 1) : i % batch_size = 0}

\* [records[i : i + batch_size] for i in range(0, len(records), batch_size)]
BatchesOf(records, batch_size) ==
    LET n == Len(records)
        count == Cardinality(BatchStarts(n, batch_size))
    IN  [b \in 1..count |->
            SubSeq(records, (b - 1) * batch_size + 1,
                   IF b * batch_size < n THEN b * batch_size ELSE n)]

Elements(seq) == {seq[i] : i \in 1..Len(seq)}

\* what response.get("results", []) can hold for a batch: at most as many
\* items as the batch, their ids among the batch's or one id outside it
ChainResults(batch, outside) ==
    UNION {[1..len -> Elements(batch) \cup {outside}] : len \in 0..Len(batch)}

\* the body of _process_batch with the count check and the validation left
\* out: whatever the chain answered is returned
process_batch_Unchecked(batch, results) == Returns(results)

\* the body of _process_batch on the chain's answer: the count check, then
\* PetRecord(**record_data), whose text is None for an id outside the batch
process_batch(batch, results) ==
    IF Len(results) # Len(batch) THEN Raises
    ELSE IF \E i \in 1..Len(results) : results[i] \notin Elements(batch)
    THEN Raises
    ELSE Returns(results)

\* pd.merge(df, extracted_df, on="id", how="inner", validate="one_to_one")
MergeOneToOne(records, extracted) ==
    IF \E i, j \in 1..Len(extracted) : i # j /\ extracted[i] = extracted[j]
    THEN Raises
    ELSE Returns(SelectSeq(records, LAMBDA id : id \in Elements(extracted)))

InitParser ==
    /\ pc = "parse"
    /\ user_turns = 0
    /\ messages = <<>>
    /\ agent_status = <<>>
    /\ user_intent = <<>>
    /\ pet_profile = <<>>
    /\ sub = NoSub
    /\ model_calls = <<>>
    /\ turn_end = NoTurn
    /\ ev = Idle
    /\ mg = Idle
    /\ sr = Idle
    /\ rn = Idle
    /\ ss = Idle
    /\ \E n \in 0..MaxRecords : \E batch_size \in 1..MaxBatchSize :
          LET batches == BatchesOf(RecordIds(n), batch_size)
          IN  pr = [stage |-> "extracting",
                    records |-> RecordIds(n),
                    batches |-> batches,
                    attempts |-> [b \in DOMAIN batches |-> 0],
                    future |-> [b \in DOMAIN batches |-> "running"],
                    results |-> [b \in DOMAIN batches |-> <<>>],
                    consumed |-> {},
                    all_results |-> <<>>,
                    failures_logged |-> 0,
                    output |-> <<>>]

\* one attempt of a worker thread at its batch; an exception of the last
\* attempt is re-raised into the future, an earlier one is retried
ParserAttempt ==
    /\ pc = "parse"
    /\ pr.stage = "extracting"
    /\ \E b \in DOMAIN pr.batches :
          /\ pr.future[b] = "running"
          /\ pr.attempts[b] < stop_after_attempt
          /\ \E outcome \in {Raises} \cup
                  {process_batch(pr.batches[b], results) :
                      results \in ChainResults(pr.batches[b],
                                               Len(pr.records))} :
                pr' = [pr EXCEPT
                    !.attempts[b] = @ + 1,
                    !.future[b] =
                        IF ~outcome.raised THEN "result"
                        ELSE IF pr.attempts[b] + 1 >= stop_after_attempt
                        THEN "exception" ELSE "running",
                    !.results[b] = outcome.results]
    /\ UNCHANGED <<pc, user_turns, messages, agent_status, user_intent,
                   pet_profile, sub, model_calls, turn_end, mg, sr, rn, ss, ev>>

\* one pass of the loop over as_completed(future_to_batch)
ParserCollect ==
    /\ pc = "parse"
    /\ pr.stage = "extracting"
    /\ \E b \in DOMAIN pr.batches \ pr.consumed :
          /\ pr.future[b] # "running"
          /\ pr' = [pr EXCEPT
                 !.consumed = @ \cup {b},
                 !.all_results =
                     IF pr.future[b] = "result" THEN @ \o pr.results[b]
                     ELSE @,
                 !.failures_logged =
                     IF pr.future[b] = "exception" THEN @ + 1 ELSE @]
    /\ UNCHANGED <<pc, user_turns, messages, agent_status, user_intent,
                   pet_profile, sub, model_calls, turn_end, mg, sr, rn, ss, ev>>

\* the pool has shut down: the check of all_results, the merge, the save
ParserFinish ==
    /\ pc = "parse"
    /\ pr.stage = "extracting"
    /\ pr.consumed = DOMAIN pr.batches
    /\ LET merged == MergeOneToOne(pr.records, pr.all_results)
       IN  pr' = IF pr.all_results = <<>> \/ merged.raised
                 THEN [pr EXCEPT !.stage = "raised"]
                 ELSE [pr EXCEPT !.stage = "returned",
                                 !.output = merged.results]
    /\ UNCHANGED <<pc, user_turns, messages, agent_status, user_intent,
                   pet_profile, sub, model_calls, turn_end, mg, sr, rn, ss, ev>>

NextParser == ParserAttempt \/ ParserCollect \/ ParserFinish

SpecParser == InitParser /\ [][NextParser]_vars

----------------------------------------------------------------------------
(* The batch run: retries, what a failed batch leaves, what parse returns. *)

\* the batches whose future holds the exception of their last attempt
FailedBatches == {b \in DOMAIN pr.batches : pr.future[b] = "exception"}

\* the batches whose future holds a result
DoneBatches == {b \in DOMAIN pr.batches : pr.future[b] = "result"}

\* how many entries of all_results carry an id of this batch
CollectedOf(b) ==
    Cardinality({i \in 1..Len(pr.all_results) :
                    pr.all_results[i] \in Elements(pr.batches[b])})

DistinctIds(seq) ==
    \A i, j \in 1..Len(seq) : i # j => seq[i] # seq[j]

C27_FailuresNeverFatal ==
    (/\ pr.stage \in {"returned", "raised"}
     /\ FailedBatches # {}
     /\ DistinctIds(pr.all_results))
    => (/\ pr.stage = "returned"
        /\ pr.failures_logged = Cardinality(FailedBatches))

----------------------------------------------------------------------------
(* Two sessions, one compiled graph, one MemorySaver: the checkpoint of a  *)
(* thread is read and written under config["configurable"]["thread_id"].   *)

\* the user turns of one session
MaxSessionTurns == 2

\* thread_id = "user_session_001", and a second, distinct one
ThreadIds == {"user_session_001", "user_session_002"}

\* the checkpoint of a thread nothing was written for, with the node that
\* runs next and the counters the last inquiry subgraph ended with
NewThread ==
    [next |-> "await_input", user_turns |-> 0, messages |-> <<>>,
     agent_status |-> <<>>, user_intent |-> <<>>, pet_profile |-> <<>>,
     inquiry_turns |-> <<>>, additional_inquiry_turns |-> <<>>]

\* the extraction model's raw outputs the two sessions draw from
SessionRaws ==
    {[name |-> s_rex, species |-> None, breed |-> None, symptoms |-> <<>>,
      age |-> None, sex |-> None, weight |-> None, language |-> None],
     [name |-> s_rex, species |-> s_dog, breed |-> s_beagle,
      symptoms |-> <<s_vomit_padded>>,
      age |-> None, sex |-> None, weight |-> None, language |-> None],
     [name |-> s_max, species |-> s_cat, breed |-> s_beagle,
      symptoms |-> <<s_vomit_upper>>,
      age |-> s_two, sex |-> s_male, weight |-> s_kg,
      language |-> s_english]}

\* the final message the diagnosis subgraph can append
DiagnosisMessages ==
    {"fallback_no_draft", "final_approved", "final_rejected",
     "fallback_system_error"}

\* checkpointer.get_tuple(config)
GetTuple(storage, thread_id) == storage[thread_id]

\* a checkpointer that keeps one checkpoint whatever the thread_id
Put_OneCheckpoint(storage, thread_id, checkpoint) ==
    [t \in DOMAIN storage |-> checkpoint]

\* checkpointer.put(config, checkpoint)
Put(storage, thread_id, checkpoint) ==
    [storage EXCEPT ![thread_id] = checkpoint]

\* graph.astream({"messages": [input_message]}, config)
SessionInput(st) ==
    [st EXCEPT !.next = "orchestrator_node",
               !.user_turns = @ + 1,
               !.messages = add_messages(@, <<HumanMessage("utterance")>>)]

\* orchestrator_node and the conditional edge after it
SessionOrchestrator(st, intent) ==
    LET upd == OrchestratorUpdate(intent)
        after == IF OrchestratorSkips(StateGet(st.agent_status, ""))
                 THEN st
                 ELSE [st EXCEPT
                          !.agent_status = <<upd.agent_status>>,
                          !.user_intent = <<upd.user_intent>>,
                          !.messages = add_messages(@, upd.messages)]
    IN  [after EXCEPT !.next =
            IF orchestrator_router(StateGet(after.agent_status, ""))
                  = "inquiry_subgraph"
            THEN "inquiry_subgraph" ELSE "await_input"]

\* the inquiry subgraph (extractor_node, inquiry_node) and diagnosis_router
SessionInquiry(st, raw) ==
    LET entry == SubgraphInput(st.messages, st.agent_status, st.pet_profile)
        updated == merge_profiles(StateGet(entry.pet_profile, EmptyProfile),
                                  PetProfileCtor(raw))
        turns == StateGet(entry.inquiry_turns, 0)
        additional == StateGet(entry.additional_inquiry_turns, 0)
        branch == InquiryBranch(updated, turns, additional)
        status == IF branch = "ready" THEN AgentStatus_DIAGNOSIS
                  ELSE IF branch = "abort" THEN AgentStatus_END
                  ELSE StateGet(entry.agent_status, "")
        reply == IF branch = "ready" THEN <<AIMessage("profile_summary")>>
                 ELSE IF branch = "abort" THEN <<>>
                 ELSE <<AIMessage(QuestionKind(updated))>>
    IN  [st EXCEPT
            !.messages = add_messages(entry.messages, reply),
            !.agent_status = <<status>>,
            !.pet_profile = <<updated>>,
            !.inquiry_turns = <<turns + 1>>,
            !.additional_inquiry_turns =
                IF branch = "ask"
                THEN <<AdditionalAfterQuestion(updated, additional)>>
                ELSE entry.additional_inquiry_turns,
            !.next = IF diagnosis_router(status) = "diagnosis_subgraph"
                     THEN "diagnosis_subgraph" ELSE "await_input"]

\* the diagnosis subgraph and the edge to END
SessionDiagnosis(st, final) ==
    [st EXCEPT !.messages = add_messages(@, <<AIMessage(final)>>),
               !.next = "await_input"]

\* a model call of the node raised: the loop logs the error and breaks
SessionRaised(st) == [st EXCEPT !.next = "exited_on_error"]

\* the step of the thread's graph at its next node, on this input
SessionStep(st, input) ==
    IF st.next = "await_input" THEN SessionInput(st)
    ELSE IF st.next = "orchestrator_node" THEN SessionOrchestrator(st, input)
    ELSE IF st.next = "inquiry_subgraph" THEN SessionInquiry(st, input)
    ELSE SessionDiagnosis(st, input)

InitSessions ==
    /\ pc = "sessions"
    /\ user_turns = 0
    /\ messages = <<>>
    /\ agent_status = <<>>
    /\ user_intent = <<>>
    /\ pet_profile = <<>>
    /\ sub = NoSub
    /\ model_calls = <<>>
    /\ turn_end = NoTurn
    /\ ev = Idle
    /\ mg = Idle
    /\ sr = Idle
    /\ rn = Idle
    /\ pr = Idle
    /\ ss = [stage |-> "running",
             storage |-> [t \in ThreadIds |-> NewThread],
             alone |-> [t \in ThreadIds |-> NewThread],
             retriever_instance |-> None]

\* one session takes the next step of its turn: the thread's checkpoint is
\* read, the node runs, the checkpoint is written; `alone` is the same
\* session taking the same step with the same input and no other session
SessionsAfter(thread_id, input) ==
    [ss EXCEPT
        !.storage = Put(@, thread_id,
                        SessionStep(GetTuple(ss.storage, thread_id), input)),
        !.alone[thread_id] = SessionStep(@, input)]

SessionsUserInput ==
    /\ pc = "sessions"
    /\ \E t \in ThreadIds :
          /\ GetTuple(ss.storage, t).next = "await_input"
          /\ GetTuple(ss.storage, t).user_turns < MaxSessionTurns
          /\ ss' = SessionsAfter(t, "utterance")
    /\ UNCHANGED <<pc, user_turns, messages, agent_status, user_intent,
                   pet_profile, sub, model_calls, turn_end, mg, sr, rn, pr, ev>>

SessionsOrchestrator ==
    /\ pc = "sessions"
    /\ \E t \in ThreadIds :
          /\ GetTuple(ss.storage, t).next = "orchestrator_node"
          /\ \E intent \in IntentType : ss' = SessionsAfter(t, intent)
    /\ UNCHANGED <<pc, user_turns, messages, agent_status, user_intent,
                   pet_profile, sub, model_calls, turn_end, mg, sr, rn, pr, ev>>

SessionsInquiry ==
    /\ pc = "sessions"
    /\ \E t \in ThreadIds :
          /\ GetTuple(ss.storage, t).next = "inquiry_subgraph"
          /\ \E raw \in SessionRaws : ss' = SessionsAfter(t, raw)
    /\ UNCHANGED <<pc, user_turns, messages, agent_status, user_intent,
                   pet_profile, sub, model_calls, turn_end, mg, sr, rn, pr, ev>>

SessionsDiagnosis ==
    /\ pc = "sessions"
    /\ \E t \in ThreadIds :
          /\ GetTuple(ss.storage, t).next = "diagnosis_subgraph"
          /\ \E final \in DiagnosisMessages : ss' = SessionsAfter(t, final)
    /\ UNCHANGED <<pc, user_turns, messages, agent_status, user_intent,
                   pet_profile, sub, model_calls, turn_end, mg, sr, rn, pr, ev>>

\* the except clause of a session's loop, after a model call that raised in
\* orchestrator_node or in the inquiry subgraph
SessionsExcept ==
    /\ pc = "sessions"
    /\ \E t \in ThreadIds :
          LET st == GetTuple(ss.storage, t)
          IN  /\ \/ /\ st.next = "orchestrator_node"
                    /\ ~OrchestratorSkips(StateGet(st.agent_status, ""))
                 \/ st.next = "inquiry_subgraph"
              /\ ss' = [ss EXCEPT
                     !.storage = Put(@, t, SessionRaised(st)),
                     !.alone[t] = SessionRaised(@)]
    /\ UNCHANGED <<pc, user_turns, messages, agent_status, user_intent,
                   pet_profile, sub, model_calls, turn_end, mg, sr, rn, pr, ev>>

NextSessions ==
    \/ SessionsUserInput
    \/ SessionsOrchestrator
    \/ SessionsInquiry
    \/ SessionsDiagnosis
    \/ SessionsExcept

SpecSessions == InitSessions /\ [][NextSessions]_vars

----------------------------------------------------------------------------
(* Retriever.search: what Step 4 returns.                                  *)

\* C31: with the re-ranker on and a fused candidate, search returns the
\* re-ranker's items, in its order and with its scores, cut to limit;
\* otherwise it returns the fused items in fused order with the fused
\* scores, cut to limit; either way at most limit items.
C31_RerankOrFusedTruncated ==
    sr.stage = "returned" =>
      LET reranked == sr.use_reranker /\ sr.fused_results # <<>>
          basis == IF reranked THEN sr.rerank_results ELSE sr.fused_results
          expected == IF Len(basis) < SearchLimit
                      THEN Len(basis) ELSE SearchLimit
      IN  /\ Len(sr.final_results) <= SearchLimit
          /\ Len(sr.final_results) = expected
          /\ \A i \in 1..Len(sr.final_results) :
                IF reranked
                THEN /\ sr.final_results[i].id = sr.rerank_results[i].id
                     /\ sr.final_results[i].score = sr.rerank_results[i].score
                ELSE /\ sr.final_results[i].id = sr.fused_results[i].hit.id
                     /\ sr.final_results[i].score = sr.fused_results[i].score
          /\ reranked =>
                \A i \in 1..Len(sr.rerank_results) :
                   \E j \in 1..Len(sr.fused_results) :
                      sr.fused_results[j].hit.id = sr.rerank_results[i].id

C31_Witness ==
    /\ sr.stage = "returned"
    /\ sr.use_reranker
    /\ Len(sr.rerank_results) > SearchLimit
    /\ Len(sr.final_results) = SearchLimit
    /\ sr.final_results[1].id # sr.fused_results[1].hit.id

\* the species of the profile is known: set, and not SpeciesEnum.UNKNOWN
SpeciesKnown(profile) ==
    /\ profile # <<>>
    /\ ~Falsy(profile[1].species)
    /\ profile[1].species # SpeciesEnum_UNKNOWN

\* C32: the dense and the sparse search get the same filter and the recall
\* width 40; the filter is one exact match on the profile's species when
\* the species is known, and no filter when it is not.
C32_SameFilterByKnownSpecies ==
    sr.stage \in {"recalled", "fused", "returned"} =>
      /\ sr.dense_query.using = "dense"
      /\ sr.sparse_query.using = "sparse"
      /\ sr.dense_query.limit = 40
      /\ sr.sparse_query.limit = 40
      /\ sr.dense_query.query_filter = sr.sparse_query.query_filter
      /\ IF SpeciesKnown(sr.pet_profile)
         THEN sr.dense_query.query_filter =
                 [filter |-> TRUE,
                  must |-> <<FieldCondition("species",
                                            sr.pet_profile[1].species)>>]
         ELSE sr.dense_query.query_filter = NoFilter

C32_Witness ==
    /\ sr.stage = "recalled"
    /\ SpeciesKnown(sr.pet_profile)
    /\ sr.dense_query.query_filter.filter
    /\ sr.sparse_query.query_filter.must
          = <<FieldCondition("species", s_dog)>>
    /\ sr.dense_hits # <<>>
    /\ sr.sparse_hits # <<>>

----------------------------------------------------------------------------
(* What a chain of merges keeps.                                           *)

IsPrefix(before, after) ==
    /\ Len(before) <= Len(after)
    /\ SubSeq(after, 1, Len(before)) = before

\* C33: the symptom list a merge starts from is a prefix of the list it
\* returns, for the first merge and for every later merge of the chain, the
\* repeated one included.
C33_SymptomsAppendOnly ==
    [][(mg'.stage \in {"merged", "repeated"})
       => (/\ IsPrefix(MergeLatest.symptoms, MergeLatest'.symptoms)
           /\ IsPrefix(mg'.current.symptoms, mg'.merged.symptoms)
           /\ IsPrefix(mg'.merged.symptoms, mg'.again.symptoms))]_vars

C33_Witness ==
    /\ mg.stage = "merged"
    /\ Len(mg.current.symptoms) >= 1
    /\ mg.delta.symptoms # <<>>
    /\ Len(mg.merged.symptoms) = Len(mg.current.symptoms) + 1
    /\ mg.merged.symptoms[1] = mg.current.symptoms[1]
    /\ ~InSeq(mg.merged.symptoms[Len(mg.merged.symptoms)], mg.current.symptoms)

\* the scalar fields inquiry_node asks for
AskedScalars == {"name", "species", "breed", "age", "sex", "weight"}

MissingScalars(p) == {f \in AskedScalars : p[f] = None}

\* C36: a merge never clears a scalar field: each of name, species, breed,
\* age, sex and weight that the profile held before a merge is held after
\* it, so the set of missing scalar fields never grows along a chain.
C36_PresentStaysPresent ==
    [][(mg'.stage \in {"merged", "repeated"})
       => (/\ MissingScalars(MergeLatest') \subseteq MissingScalars(MergeLatest)
           /\ MissingScalars(mg'.merged) \subseteq MissingScalars(mg'.current)
           /\ \A f \in AskedScalars :
                 (mg'.current[f] # None /\ mg'.delta[f] = None)
                    => mg'.merged[f] = mg'.current[f])]_vars

C36_Witness ==
    /\ mg.stage = "merged"
    /\ mg.current.name # None
    /\ mg.current.species # None
    /\ mg.raw.name # None
    /\ mg.delta.name = None
    /\ mg.merged.name = mg.current.name
    /\ mg.merged.species = mg.current.species

----------------------------------------------------------------------------
(* extractor_node: the message it takes for the previous question.         *)

\* "Please describe your pet's health issue or situation."
DefaultOpeningQuestion ==
    [type |-> "default", content |-> "opening_question", id |-> 0]

\* the message whose content extractor_node puts into last_bot_question
last_bot_question(history) ==
    IF Len(history) > 1 THEN history[Len(history) - 1]
    ELSE DefaultOpeningQuestion

\* C34: when extractor_node runs on a history of more than one message, the
\* message it takes for the previous system question is an assistant
\* message; on a history of one message it takes the default opening
\* question.
C34_PreviousQuestionIsAssistant ==
    pc = "extractor_node" =>
      /\ Len(sub.messages) >= 1
      /\ sub.messages[Len(sub.messages)].type = "human"
      /\ Len(sub.messages) = 1
            => last_bot_question(sub.messages) = DefaultOpeningQuestion
      /\ Len(sub.messages) > 1
            => last_bot_question(sub.messages).type = "ai"

----------------------------------------------------------------------------
(* The diagnosis pipeline and the profile it starts from.                  *)

\* the nodes of the diagnosis subgraph, in the order of its edges
DiagnosisNodes ==
    {"diagnostic_query_generator_node", "diagnostic_retrieve_node",
     "diagnosis_actor_node", "diagnosis_critic_node"}

\* C35: while a node of the diagnosis subgraph (planner, retriever, actor,
\* critic) is about to run, the profile it reads has every mandatory field:
\* species set and not UNKNOWN, name set, breed set, symptoms non-empty.
C35_DiagnosisFromCompleteProfile ==
    pc \in DiagnosisNodes =>
      /\ sub.pet_profile # <<>>
      /\ LET profile == sub.pet_profile[1]
         IN  /\ profile.species # None
             /\ profile.species # SpeciesEnum_UNKNOWN
             /\ profile.name # None /\ profile.name # <<>>
             /\ profile.breed # None /\ profile.breed # <<>>
             /\ profile.symptoms # <<>>

\* the planner is reached in a later turn of the session, from a profile
\* the earlier turns left incomplete
C35_Witness ==
    /\ pc = "diagnostic_query_generator_node"
    /\ sub.pet_profile # <<>>
    /\ sub.pet_profile[1].symptoms # <<>>
    /\ user_turns >= 2
    /\ missing_mandatory(StateGet(turn_end.pet_profile, EmptyProfile)) # <<>>

----------------------------------------------------------------------------
(* One graph invocation: the order of its nodes.                           *)

\* the nodes of the three graphs along their edges: the parent graph's entry
\* point, the inquiry subgraph, the return to the parent, the diagnosis
\* subgraph, the return to the parent
NodeOrder ==
    <<"orchestrator_node", "extractor_node", "inquiry_node", "inquiry_end",
      "diagnostic_query_generator_node", "diagnostic_retrieve_node",
      "diagnosis_actor_node", "diagnosis_critic_node", "diagnosis_end">>

\* position of a node in NodeOrder, 0 outside an invocation
NodePosition(at) ==
    IF \E i \in 1..Len(NodeOrder) : NodeOrder[i] = at
    THEN CHOOSE i \in 1..Len(NodeOrder) : NodeOrder[i] = at
    ELSE 0

\* inquiry_node returned a question
QuestionAsked ==
    /\ pc = "inquiry_end"
    /\ LastMessage(sub.messages).type = "ai"
    /\ LastMessage(sub.messages).content
          \in {"question_mandatory", "question_optional"}

\* C37: within one graph invocation a step leads either to a node later in
\* the order of the edges or out of the invocation (back to input(), or to
\* the except clause), so no node runs twice and the invocation ends after
\* at most nine steps; an invocation starts only at orchestrator_node; and
\* after a question of inquiry_node the invocation ends and the session
\* waits for the next user message.
C37_EachNodeOncePerTurn ==
    [][/\ (NodePosition(pc) > 0)
           => \/ NodePosition(pc') > NodePosition(pc)
              \/ pc' \in {"await_input", "raised"}
       /\ (NodePosition(pc) = 0 /\ NodePosition(pc') > 0)
           => (pc = "await_input" /\ pc' = "orchestrator_node")
       /\ QuestionAsked => pc' = "await_input"]_vars

\* a question has been asked in the second turn of a session
C37_Witness ==
    /\ QuestionAsked
    /\ user_turns = 2
    /\ Len(messages) >= 2

----------------------------------------------------------------------------
(* The session after its diagnosis.                                        *)

DiagnosisReached == StateGet(agent_status, "") = AgentStatus_DIAGNOSIS

\* C38: once agent_status is DIAGNOSIS it stays DIAGNOSIS; the diagnosis
\* subgraph is entered only in the step that writes that status, hence at
\* most once per session; and a later user turn is ended by the orchestrator
\* itself: no model call (neither a classification, which would rewrite
\* agent_status and user_intent, nor a failed call, which would raise), no
\* assistant message, and no change of the stored state besides the user
\* message the turn started with.
C38_DiagnosisOncePerSession ==
    [][/\ DiagnosisReached => DiagnosisReached'
       /\ (pc # "diagnostic_query_generator_node"
              /\ pc' = "diagnostic_query_generator_node")
           => ~DiagnosisReached
       /\ (DiagnosisReached /\ pc = "await_input")
           => \/ pc' = "exited" /\ messages' = messages
              \/ /\ pc' = "orchestrator_node"
                 /\ Len(messages') = Len(messages) + 1
                 /\ SubSeq(messages', 1, Len(messages)) = messages
                 /\ LastMessage(messages').type = "human"
       /\ (DiagnosisReached /\ pc = "orchestrator_node")
           => /\ pc' = "await_input"
              /\ model_calls = <<>>
              /\ messages' = messages
              /\ pet_profile' = pet_profile
              /\ user_intent' = user_intent
              /\ turn_end'.messages = messages]_vars

\* a user turn after the diagnosis has been ended by the orchestrator
C38_Witness ==
    /\ pc = "await_input"
    /\ DiagnosisReached
    /\ LastMessage(messages).type = "human"
    /\ \E i \in 1..Len(messages) :
          messages[i].content \in {"final_approved", "final_rejected"}

----------------------------------------------------------------------------
(* Evaluator.evaluate: one future per test case, counters by difficulty.   *)

\* bound on the test cases of one test file
MaxCases == 3

\* the "difficulty" key of a test case: absent, or one of the file's labels
CaseDifficulties == {<<>>, <<"Easy">>, <<"Hard">>}

TestCases == {[id |-> "target", difficulty |-> d] : d \in CaseDifficulties}

\* json.load(f): the test cases of a file
TestFiles == UNION {[1..n -> TestCases] : n \in 0..MaxCases}

\* the ids of the results retriever.search returned, in rank order
SearchResults == {<<"other">>, <<"target">>, <<"other", "target">>}

\* one call of retriever.search: it raises, or returns results
SearchOutcomes ==
    {[raised |-> TRUE, results |-> <<>>]}
        \cup {[raised |-> FALSE, results |-> r] : r \in SearchResults}

\* mrr is counted in halves: 1.0 / rank is MrrUnits \div rank for rank 1, 2
MrrUnits == 2

\* retrieved_ids.index(target_id) + 1
RankOf(retrieved_ids, target_id) ==
    CHOOSE i \in 1..Len(retrieved_ids) :
        /\ retrieved_ids[i] = target_id
        /\ \A j \in 1..(i - 1) : retrieved_ids[j] # target_id

_evaluate_single_case(case, outcome) ==
    LET target_id == case.id
        difficulty == StateGet(case.difficulty, "Unknown")
    IN  IF outcome.raised
        THEN [difficulty |-> difficulty, hit |-> FALSE, mrr |-> 0,
              error |-> TRUE]
        ELSE LET retrieved_ids == outcome.results
                 is_hit == \E i \in 1..Len(retrieved_ids) :
                              retrieved_ids[i] = target_id
             IN  [difficulty |-> difficulty, hit |-> is_hit,
                  mrr |-> IF is_hit
                          THEN MrrUnits \div RankOf(retrieved_ids, target_id)
                          ELSE 0,
                  error |-> FALSE]

\* the keys stats can get: "Total" and the difficulties of the results
Categories == {"Total", "Easy", "Hard", "Unknown"}

\* defaultdict(lambda: {'hits': 0, 'mrr_sum': 0.0, 'count': 0}): a key that
\* was never written reads as the default entry
NewStats == [c \in Categories |-> [hits |-> 0, mrr_sum |-> 0, count |-> 0]]

\* count += 1; if hit: hits += 1, mrr_sum += mrr
Counted(entry, result) ==
    [hits |-> entry.hits + (IF result["hit"] THEN 1 ELSE 0),
     mrr_sum |-> entry.mrr_sum + (IF result["hit"] THEN result.mrr ELSE 0),
     count |-> entry.count + 1]

\* the loop body without its test of result.get("error")
Accumulate_CountsErrors(stats, result) ==
    LET total == [stats EXCEPT !["Total"] = Counted(@, result)]
    IN  [total EXCEPT ![result.difficulty] = Counted(@, result)]

\* the loop body for one completed future: an error result is skipped, any
\* other one updates the Total entry, then the entry of its difficulty
Accumulate(stats, result) ==
    IF result.error THEN stats
    ELSE LET total == [stats EXCEPT !["Total"] = Counted(@, result)]
         IN  [total EXCEPT ![result.difficulty] = Counted(@, result)]

\* round(n / d, 4) in units of 0.0001; n / d has no tie at the fifth decimal
\* for the counts the bounds allow
Round4(n, d) == (2 * 10000 * n + d) \div (2 * d)

\* final_metrics: the categories with a count, each with its rates
FinalMetrics(stats) ==
    [c \in {k \in Categories : stats[k].count # 0} |->
        [hit_rate |-> Round4(stats[c].hits, stats[c].count),
         mrr |-> Round4(stats[c].mrr_sum, MrrUnits * stats[c].count),
         count |-> stats[c].count]]

InitEvaluator ==
    /\ pc = "evaluate"
    /\ user_turns = 0
    /\ messages = <<>>
    /\ agent_status = <<>>
    /\ user_intent = <<>>
    /\ pet_profile = <<>>
    /\ sub = NoSub
    /\ model_calls = <<>>
    /\ turn_end = NoTurn
    /\ mg = Idle
    /\ sr = Idle
    /\ rn = Idle
    /\ pr = Idle
    /\ ss = Idle
    /\ \E file_exists \in BOOLEAN :
       \E test_cases \in IF file_exists THEN TestFiles ELSE {<<>>} :
          ev = [stage |-> "called",
                file_exists |-> file_exists,
                test_cases |-> test_cases,
                futures |-> <<>>,
                processed_count |-> 0,
                stats |-> NewStats,
                final_metrics |-> <<>>]

\* os.path.exists(test_file) is false: evaluate returns {}
EvaluateMissingFile ==
    /\ pc = "evaluate"
    /\ ev.stage = "called"
    /\ ~ev.file_exists
    /\ ev' = [ev EXCEPT !.stage = "returned", !.final_metrics = << <<>> >>]
    /\ UNCHANGED <<pc, user_turns, messages, agent_status, user_intent,
                   pet_profile, sub, model_calls, turn_end, mg, sr, rn, pr,
                   ss>>

\* the file is loaded and one future is submitted per test case
EvaluateSubmit ==
    /\ pc = "evaluate"
    /\ ev.stage = "called"
    /\ ev.file_exists
    /\ ev' = [ev EXCEPT
           !.stage = "running",
           !.futures = [i \in 1..Len(ev.test_cases) |->
                           [state |-> "pending", result |-> <<>>]]]
    /\ UNCHANGED <<pc, user_turns, messages, agent_status, user_intent,
                   pet_profile, sub, model_calls, turn_end, mg, sr, rn, pr,
                   ss>>

\* a worker thread runs _evaluate_single_case and completes its future
EvaluateWorker ==
    /\ pc = "evaluate"
    /\ ev.stage = "running"
    /\ \E i \in 1..Len(ev.futures) : \E outcome \in SearchOutcomes :
          /\ ev.futures[i].state = "pending"
          /\ ev' = [ev EXCEPT !.futures[i] =
                       [state |-> "done",
                        result |-> <<_evaluate_single_case(
                                        ev.test_cases[i], outcome)>>]]
    /\ UNCHANGED <<pc, user_turns, messages, agent_status, user_intent,
                   pet_profile, sub, model_calls, turn_end, mg, sr, rn, pr,
                   ss>>

\* as_completed yields one of the completed futures: one pass of the loop
EvaluateCollect ==
    /\ pc = "evaluate"
    /\ ev.stage = "running"
    /\ \E i \in 1..Len(ev.futures) :
          /\ ev.futures[i].state = "done"
          /\ ev' = [ev EXCEPT
                 !.futures[i].state = "collected",
                 !.processed_count = @ + 1,
                 !.stats = Accumulate(@, ev.futures[i].result[1])]
    /\ UNCHANGED <<pc, user_turns, messages, agent_status, user_intent,
                   pet_profile, sub, model_calls, turn_end, mg, sr, rn, pr,
                   ss>>

\* as_completed is exhausted: the summary is built and returned
EvaluateReturn ==
    /\ pc = "evaluate"
    /\ ev.stage = "running"
    /\ \A i \in 1..Len(ev.futures) : ev.futures[i].state = "collected"
    /\ ev' = [ev EXCEPT !.stage = "returned",
                        !.final_metrics = <<FinalMetrics(ev.stats)>>]
    /\ UNCHANGED <<pc, user_turns, messages, agent_status, user_intent,
                   pet_profile, sub, model_calls, turn_end, mg, sr, rn, pr,
                   ss>>

NextEvaluator ==
    \/ EvaluateMissingFile
    \/ EvaluateSubmit
    \/ EvaluateWorker
    \/ EvaluateCollect
    \/ EvaluateReturn

SpecEvaluator == InitEvaluator /\ [][NextEvaluator]_vars

----------------------------------------------------------------------------
(* The counters of an evaluation run.                                      *)

\* the futures the loop has taken from as_completed
CollectedCases ==
    {i \in 1..Len(ev.futures) : ev.futures[i].state = "collected"}

\* the completed futures whose search did not raise
NonErrorCases ==
    {i \in 1..Len(ev.futures) :
        /\ ev.futures[i].state # "pending"
        /\ ~ev.futures[i].result[1].error}

\* C39: during the loop the Total count is the number of collected cases
\* whose search did not raise, an error case changes no counter, the Total
\* count is the sum of the counts of the difficulties, and hits <= count in
\* every category; evaluate returns only after every case, failed or not,
\* has been processed, and then Total.count is the number of non-error
\* cases, in whatever order the futures completed and were collected.
C39_CountersExcludeErrors ==
    (pc = "evaluate" /\ ev.stage \in {"running", "returned"}
       /\ ev.file_exists) =>
      /\ ev.processed_count = Cardinality(CollectedCases)
      /\ ev.stats["Total"].count
            = Cardinality(CollectedCases \cap NonErrorCases)
      /\ ev.stats["Total"].count
            = ev.stats["Easy"].count + ev.stats["Hard"].count
                 + ev.stats["Unknown"].count
      /\ \A c \in Categories : ev.stats[c].hits <= ev.stats[c].count
      /\ ev.stage = "returned" =>
            /\ ev.processed_count = Len(ev.test_cases)
            /\ ev.stats["Total"].count = Cardinality(NonErrorCases)
            /\ \A c \in DOMAIN ev.final_metrics[1] :
                  ev.final_metrics[1][c].count = ev.stats[c].count

\* a run has returned in which a search raised for the first case, the
\* other cases carry two difficulties and one of them was a hit
C39_Witness ==
    /\ pc = "evaluate"
    /\ ev.stage = "returned"
    /\ Len(ev.test_cases) = MaxCases
    /\ ev.futures[1].result[1].error
    /\ ev.stats["Total"].count = MaxCases - 1
    /\ ev.stats["Easy"].count = 1
    /\ ev.stats["Total"].hits = 1

====
